---- MODULE Spec2Model ----
(***************************************************************************)
(* Model of the model-comparison orchestrator (q1/src/model_manager.py):   *)
(* candidate selection, the bounded ThreadPoolExecutor fan-out of          *)
(* compare_models, the as_completed collection loop, and the aggregation   *)
(* of create_comparison_summary.                                           *)
(***************************************************************************)
EXTENDS Integers, Sequences, FiniteSets, TLC

VARIABLES
    config,          \* Config._config["providers"]: provider -> type -> models
    providers,       \* ModelManager.providers: the initialized providers
    pc,              \* position of the thread that calls compare_models
    model_type,      \* compare_models argument
    provider,        \* compare_models argument
    max_concurrent,  \* compare_models argument
    target_models,   \* local of compare_models: the selected candidates
    executor,        \* whether the ThreadPoolExecutor was constructed
    nsubmitted,      \* how many candidates the submit loop has submitted
    queue,           \* executor work queue: submitted futures not yet started
    running,         \* futures whose provider call is executing on a worker
    hung,            \* futures whose provider call never returns
    futures,         \* future -> its state and result
    outcome,         \* future -> what the adapter did on its call
    completed,       \* the futures in the order in which they finished
    early,           \* as_completed: futures already finished when it was called
    waiter,          \* as_completed: waiter.finished_futures
    yielded,         \* futures as_completed has yielded so far
    responses,       \* local of _generate_responses_concurrent / return value
    calls,           \* model name -> number of generate_response invocations
    summary,         \* result of create_comparison_summary
    env,             \* os.environ: provider -> state of its API key variable
    ctor_raises,     \* the providers whose adapter constructor raises
    api,             \* q2 config.api: provider -> whether its key is non-empty
    clients,         \* q2 ModelService: the providers whose client was built
    config_models,   \* q2 config.models
    works,           \* the q2 models whose vendor call succeeds
    question,        \* analyze_image argument
    vpc,             \* position of the coroutine that runs analyze_image
    direct,          \* _fallback_analysis was entered from "no vision models"
    vision_models,   \* local of analyze_image
    fallback_models, \* local of _fallback_analysis
    idx,             \* position of the for loop that is running
    attempts,        \* the model calls made so far, in order
    result,          \* the dictionary analyze_image returned
    created,         \* the ModelResponse of a direct call of _create_response
    created_args,    \* the arguments of that call
    epc,             \* position of the endpoint handler of the q2 API
    endpoint,        \* the endpoint that was requested
    passed,          \* the checks of the handler the request has passed
    http,            \* the HTTP response of the handler
    rpc,             \* position of ToolEnhancedReasoner.reason
    llm_response,    \* what call_llm returned
    parsed,          \* local of reason: the parsed sections
    tool_log,        \* the calls of registered tool functions, in order
    call_result,     \* what a direct call of call_tool gave its caller
    reasoning_result \* the ReasoningResult reason returned

vars == <<config, providers, pc, model_type, provider, max_concurrent,
          target_models, executor, nsubmitted, queue, running, hung, futures,
          outcome, completed, early, waiter, yielded, responses, calls, summary,
          env, ctor_raises, api, clients, config_models, works, question, vpc,
          direct, vision_models, fallback_models, idx, attempts, result,
          created, created_args, epc, endpoint, passed, http, rpc,
          llm_response, parsed, tool_log, call_result, reasoning_result>>

\* the state of a provider adapter that builds a response on its own
response_vars == <<created, created_args>>

\* the state of the endpoint handlers of the q2 API
endpoint_vars == <<epc, endpoint, passed, http>>

\* the state of the reasoner and its tool registries (q3)
reasoner_vars == <<rpc, llm_response, parsed, tool_log, call_result,
                   reasoning_result>>

\* the state of the question-answering service (q2)
vision_vars == <<api, clients, config_models, works, question, vpc, direct,
                 vision_models, fallback_models, idx, attempts, result>>

\* the state of the comparison tool (q1)
manager_vars == <<config, providers, pc, model_type, provider,
                  max_concurrent, target_models, executor, nsubmitted,
                  queue, running, hung, futures, outcome, completed, early,
                  waiter, yielded, responses, calls, summary, env,
                  ctor_raises>>

\* state that analyze_image and its helpers never touch
comparison_vars == <<manager_vars, response_vars, endpoint_vars,
                     reasoner_vars>>

\* state that compare_models and its helpers never touch
outside == <<env, ctor_raises, vision_vars, response_vars, endpoint_vars,
             reasoner_vars>>

----------------------------------------------------------------------------
\* Bounds of the model.

\* max_concurrent is drawn from 0..MaxConcurrent
MaxConcurrent == 2
\* a stubbed adapter reports a response time in 1..MaxTime
MaxTime == 2
\* completion tokens a stubbed adapter reports for a successful call
StubCompletionTokens == 1
\* prompt tokens a stubbed adapter reports for the query
StubPromptTokens == 1

\* a direct call of _create_response passes counts in 0..MaxCount, or none
MaxCount == 2

----------------------------------------------------------------------------
\* Configuration and providers.

\* provider_classes of _initialize_providers, in dict order
ProviderOrder == <<"openai", "anthropic", "huggingface">>

ProviderNames == {ProviderOrder[i] : i \in 1..Len(ProviderOrder)}

\* target_types of _select_models_for_comparison for model_type "all"
TypeOrder == <<"base", "instruct", "fine_tuned">>

TypeNames == {TypeOrder[i] : i \in 1..Len(TypeOrder)}

\* Config._load_config when config.yaml does not exist: 'providers': {}
DefaultConfig == [p \in ProviderNames |-> [t \in TypeNames |-> << >>]]

\* a config.yaml: per provider and model type, the declared model entries
StubConfig ==
    [p \in ProviderNames |->
       [t \in TypeNames |->
          CASE p = "openai" /\ t = "base" ->
                 << [name |-> "gpt_base", available |-> TRUE] >>
            [] p = "openai" /\ t = "instruct" ->
                 << [name |-> "gpt_chat", available |-> TRUE],
                    [name |-> "gpt_old", available |-> FALSE] >>
            [] p = "anthropic" /\ t = "instruct" ->
                 << [name |-> "claude", available |-> TRUE] >>
            [] p = "huggingface" /\ t = "fine_tuned" ->
                 << [name |-> "hf_tuned", available |-> FALSE] >>
            [] OTHER -> << >>]]

Configs == {DefaultConfig, StubConfig}

ModelNames == {"gpt_base", "gpt_chat", "gpt_old", "claude", "hf_tuned"}

\* values of the --provider / provider argument
ProviderFilters == ProviderNames \cup {"all", "unknown"}

\* values of the --model-type / model_type argument
TypeFilters == TypeNames \cup {"all", "fine-tuned"}

\* a richer config.yaml for candidate selection: several providers, several
\* types within a provider, several models within a type (declared out of
\* alphabetical order), and unavailable entries among them
FullConfig ==
    [p \in ProviderNames |->
       [t \in TypeNames |->
          CASE p = "openai" /\ t = "base" ->
                 << [name |-> "davinci", available |-> TRUE],
                    [name |-> "babbage", available |-> TRUE] >>
            [] p = "openai" /\ t = "instruct" ->
                 << [name |-> "gpt_chat", available |-> TRUE] >>
            [] p = "anthropic" /\ t = "instruct" ->
                 << [name |-> "claude_old", available |-> FALSE],
                    [name |-> "claude", available |-> TRUE] >>
            [] p = "huggingface" /\ t = "base" ->
                 << [name |-> "hf_base", available |-> TRUE] >>
            [] p = "huggingface" /\ t = "fine_tuned" ->
                 << [name |-> "hf_tuned", available |-> TRUE] >>
            [] OTHER -> << >>]]

\* the configurations candidate selection is checked on
SelectConfigs == Configs \cup {FullConfig}

\* os.getenv of a provider's key variable: unset, set to "", or set to a key
KeyStates == {"missing", "empty", "set"}

\* the environment in which exactly the providers of api_keys have a key
Environ(api_keys) ==
    [p \in ProviderNames |-> IF p \in api_keys THEN "set" ELSE "missing"]

\* a variant without the try/except around the constructor: the first
\* constructor that raises ends __init__, later providers are never reached
_initialize_providers_uncaught(environ, raising) ==
    LET bad == {i \in 1..Len(ProviderOrder) :
                  /\ environ[ProviderOrder[i]] = "set"
                  /\ ProviderOrder[i] \in raising}
        stop == IF bad = {} THEN Len(ProviderOrder) + 1
                ELSE CHOOSE i \in bad : \A j \in bad : i <= j
    IN  [providers |-> {ProviderOrder[i] : i \in
                           {k \in 1..(stop - 1) :
                              environ[ProviderOrder[k]] = "set"}},
         raised |-> bad # {}]

\* _initialize_providers: for each provider class in turn, a provider is put
\* in the table iff get_api_key is truthy and the constructor does not raise
\* (the except clause prints a warning and goes on); raised tells whether an
\* exception leaves the method
_initialize_providers(environ, raising) ==
    [providers |-> {p \in ProviderNames :
                      environ[p] = "set" /\ p \notin raising},
     raised |-> FALSE]

----------------------------------------------------------------------------
\* Sequence helpers.

RECURSIVE Concat(_)
\* the concatenation of a sequence of sequences
Concat(ss) == IF ss = << >> THEN << >> ELSE Head(ss) \o Concat(Tail(ss))

Range(s) == {s[i] : i \in 1..Len(s)}

\* BaseProvider.get_available_models as the adapters implement it: the
\* entries with available set, as ModelInfo, types in declaration order
get_available_models(cfg, p) ==
    Concat([i \in 1..Len(TypeOrder) |->
              LET t == TypeOrder[i]
                  avail == SelectSeq(cfg[p][t], LAMBDA m : m.available)
              IN  [j \in 1..Len(avail) |->
                     [name |-> avail[j].name, model_type |-> t,
                      available |-> avail[j].available, provider |-> p]]])

\* a plausible slip: the type test is left out
get_models_by_type_any(cfg, p, mtype) ==
    get_available_models(cfg, p)

\* BaseProvider.get_models_by_type
get_models_by_type(cfg, p, mtype) ==
    SelectSeq(get_available_models(cfg, p), LAMBDA m : m.model_type = mtype)

\* a plausible slip: a provider filter that names no initialized provider is
\* treated like "all"
target_providers_unknown_is_all(provs, pf) ==
    IF pf \in provs
    THEN << pf >>
    ELSE SelectSeq(ProviderOrder, LAMBDA p : p \in provs)

\* _select_models_for_comparison, "Determine target providers":
\* list(self.providers.keys()), the one named provider, or nothing
target_providers(provs, pf) ==
    IF pf = "all"
    THEN SelectSeq(ProviderOrder, LAMBDA p : p \in provs)
    ELSE IF pf \in provs THEN << pf >> ELSE << >>

\* a variant whose "all" lists the instruct type first
target_types_instruct_first(mt) ==
    IF mt = "all" THEN <<"instruct", "base", "fine_tuned">> ELSE << mt >>

\* _select_models_for_comparison, "Determine target model types"
target_types(mt) == IF mt = "all" THEN TypeOrder ELSE << mt >>

\* _select_models_for_comparison: the candidate triples
_select_models_for_comparison(cfg, provs, mt, pf) ==
    LET tps == target_providers(provs, pf)
        tts == target_types(mt)
        ofType(p, t) ==
            LET models == SelectSeq(get_models_by_type(cfg, p, t),
                                    LAMBDA m : m.available)
            IN  [k \in 1..Len(models) |->
                   << p, models[k].name, models[k].model_type >>]
        ofProvider(p) ==
            Concat([j \in 1..Len(tts) |-> ofType(p, tts[j])])
    IN  Concat([i \in 1..Len(tps) |-> ofProvider(tps[i])])

----------------------------------------------------------------------------
\* Adapters and responses.

None == [none |-> TRUE]

\* what the stubbed adapter does on one call
Replies ==
    [kind : {"ok"}, time : 1..MaxTime, completion : {StubCompletionTokens}]
    \cup [kind : {"error"}, time : 1..MaxTime, completion : {0}]
    \cup [kind : {"raise"}, time : {0}, completion : {0}]

\* response.choices[0].message.content of a successful vendor call
Completion == "completion"

\* f"Error: {str(e)}" of the adapters' except path
ErrorText == "Error: vendor call failed"

\* prompt_tokens: int = None, completion_tokens: int = None
NoCount == -1

\* the query the adapters pass on as prompt=query
Query == "What is the capital of France?"

\* BaseProvider._calculate_tokens
_calculate_tokens(text) == Len(text) \div 4

\* a variant that counts a missing count as 0
token_usage_missing_is_zero(prompt_tokens, completion_tokens, prompt, content) ==
    LET p == IF prompt_tokens = NoCount THEN 0 ELSE prompt_tokens
        c == IF completion_tokens = NoCount THEN 0 ELSE completion_tokens
    IN  [prompt_tokens |-> p, completion_tokens |-> c, total_tokens |-> p + c]

\* _create_response, "Calculate token usage if not provided", token_usage
token_usage(prompt_tokens, completion_tokens, prompt, content) ==
    LET p == IF prompt_tokens = NoCount
             THEN _calculate_tokens(prompt)
             ELSE prompt_tokens
        c == IF completion_tokens = NoCount
             THEN _calculate_tokens(content)
             ELSE completion_tokens
    IN  [prompt_tokens |-> p, completion_tokens |-> c, total_tokens |-> p + c]

\* BaseProvider._create_response
_create_response(cand, content, time, prompt_tokens, completion_tokens, metadata) ==
    [model_name |-> cand[2],
     content |-> content,
     provider |-> cand[1],
     model_type |-> cand[3],
     token_usage |-> token_usage(prompt_tokens, completion_tokens,
                                 IF "prompt" \in metadata THEN Query ELSE "",
                                 content),
     response_time |-> time,
     metadata |-> metadata]

\* a plausible slip: the except path leaves the prompt count to the estimate
\* instead of passing prompt_tokens=0
generate_response_counts_prompt(cand, reply) ==
    IF reply.kind = "ok"
    THEN _create_response(cand, Completion, reply.time, StubPromptTokens,
                          reply.completion,
                          {"prompt", "finish_reason", "model_version"})
    ELSE _create_response(cand, ErrorText, reply.time, StubPromptTokens, 0,
                          {"prompt", "error"})

\* a variant whose except path does not pass error=str(e)
generate_response_untagged(cand, reply) ==
    IF reply.kind = "ok"
    THEN _create_response(cand, Completion, reply.time, StubPromptTokens,
                          reply.completion,
                          {"prompt", "finish_reason", "model_version"})
    ELSE _create_response(cand, ErrorText, reply.time, 0, 0, {"prompt"})

\* provider.generate_response for a reply that returns: the adapter's success
\* path, or its except path (prompt_tokens=0, completion_tokens=0, error=...)
generate_response(cand, reply) ==
    IF reply.kind = "ok"
    THEN _create_response(cand, Completion, reply.time, StubPromptTokens,
                          reply.completion,
                          {"prompt", "finish_reason", "model_version"})
    ELSE _create_response(cand, ErrorText, reply.time, 0, 0, {"prompt", "error"})

\* a variant that turns a raised exception into an error-tagged response
_generate_single_response_synthesizes(cand, reply) ==
    IF reply.kind = "raise"
    THEN _create_response(cand, ErrorText, 0, 0, 0, {"error"})
    ELSE IF reply.kind = "ok"
         THEN _create_response(cand, Completion, reply.time, StubPromptTokens,
                               reply.completion,
                               {"prompt", "finish_reason", "model_version"})
         ELSE _create_response(cand, ErrorText, reply.time, 0, 0, {"prompt", "error"})

\* _generate_single_response: the adapter's response, None when it raised
_generate_single_response(cand, reply) ==
    IF reply.kind = "raise" THEN None ELSE generate_response(cand, reply)

----------------------------------------------------------------------------
\* create_comparison_summary.

RECURSIVE Sum(_)
\* sum(...) of a sequence of numbers, folded from the left
Sum(xs) == IF xs = << >> THEN 0 ELSE Sum(SubSeq(xs, 1, Len(xs) - 1)) + xs[Len(xs)]

RECURSIVE GCD(_, _)
GCD(a, b) == IF b = 0 THEN a ELSE GCD(b, a % b)

\* the true division n / d, as a fraction in lowest terms
Div(n, d) == << n \div GCD(n, d), d \div GCD(n, d) >>

\* min(values) as Python evaluates it with a key: the first position that
\* holds the least value
FirstMin(values) ==
    CHOOSE i \in 1..Len(values) :
        /\ \A j \in 1..Len(values) : values[i] <= values[j]
        /\ \A j \in 1..(i - 1) : values[j] # values[i]

\* max(values) as Python evaluates it with a key: the first position that
\* holds the greatest value
FirstMax(values) ==
    CHOOSE i \in 1..Len(values) :
        /\ \A j \in 1..Len(values) : values[i] >= values[j]
        /\ \A j \in 1..(i - 1) : values[j] # values[i]

response_times(resps) == [i \in 1..Len(resps) |-> resps[i].response_time]

token_totals(resps) ==
    [i \in 1..Len(resps) |-> resps[i].token_usage.total_tokens]

\* "average_response_time"
average_response_time(resps) == Div(Sum(response_times(resps)), Len(resps))

\* a plausible slip: the completion tokens are summed, not the totals
total_tokens_used_completion_only(resps) ==
    Sum([i \in 1..Len(resps) |-> resps[i].token_usage.completion_tokens])

\* "total_tokens_used"
total_tokens_used(resps) == Sum(token_totals(resps))

\* a plausible slip: min() without its key, which here yields the first item
fastest_response_first(resps) == resps[1]

\* "fastest_response"
fastest_response(resps) == resps[FirstMin(response_times(resps))]

\* "slowest_response"
slowest_response(resps) == resps[FirstMax(response_times(resps))]

\* "most_tokens"
most_tokens(resps) == resps[FirstMax(token_totals(resps))]

\* "least_tokens"
least_tokens(resps) == resps[FirstMin(token_totals(resps))]

\* a variant that leaves out the filter on r.provider
provider_stats_unfiltered(resps) ==
    [p \in {resps[i].provider : i \in 1..Len(resps)} |->
       [count |-> Len(resps),
        avg_response_time |-> << Sum([i \in 1..Len(resps) |-> resps[i].response_time]), Len(resps) >>,
        total_tokens |-> Sum([i \in 1..Len(resps) |-> resps[i].token_usage.total_tokens])]]

\* "provider_stats": one entry per provider of providers_used
provider_stats(resps) ==
    [p \in {resps[i].provider : i \in 1..Len(resps)} |->
       LET provider_responses == SelectSeq(resps, LAMBDA r : r.provider = p)
       IN  [count |-> Len(provider_responses),
            avg_response_time |-> average_response_time(provider_responses),
            total_tokens |-> total_tokens_used(provider_responses)]]

\* create_comparison_summary; providers_used and model_types_used are lists
\* made from sets, kept here as the sets
create_comparison_summary(resps) ==
    IF resps = << >>
    THEN << >>
    ELSE [total_responses |-> Len(resps),
          providers_used |-> {resps[i].provider : i \in 1..Len(resps)},
          model_types_used |-> {resps[i].model_type : i \in 1..Len(resps)},
          average_response_time |-> average_response_time(resps),
          total_tokens_used |-> total_tokens_used(resps),
          fastest_response |-> fastest_response(resps),
          slowest_response |-> slowest_response(resps),
          most_tokens |-> most_tokens(resps),
          least_tokens |-> least_tokens(resps),
          provider_stats |-> provider_stats(resps)]

----------------------------------------------------------------------------
\* The executor and the collection loop.

Futures == 1..Len(target_models)

NoReply == [kind |-> "none", time |-> 0, completion |-> 0]

Pending == [state |-> "PENDING", result |-> None, raised |-> FALSE]

\* a plausible slip: one worker too many
WorkerAvailable_off_by_one(inflight, max_workers) ==
    Cardinality(inflight) <= max_workers

\* ThreadPoolExecutor(max_workers): a queued work item starts when fewer than
\* max_workers calls are executing
WorkerAvailable(inflight, max_workers) ==
    Cardinality(inflight) < max_workers

\* a plausible slip: a call that is submitted again (a retry)
submit_twice(q, f) == Append(Append(q, f), f)

\* executor.submit: the work item joins the queue
submit(q, f) == Append(q, f)

\* a variant that appends a result twice
CollectResult_appends_twice(resps, fut) ==
    IF fut.raised
    THEN resps
    ELSE IF fut.result # None
         THEN Append(Append(resps, fut.result), fut.result)
         ELSE resps

\* a plausible slip: responses = [response] instead of responses.append
CollectResult_overwrites(resps, fut) ==
    IF fut.raised
    THEN resps
    ELSE IF fut.result # None THEN << fut.result >> ELSE resps

\* the body of the as_completed loop: result(), the truthiness test, the
\* except clause that logs and goes on
CollectResult(resps, fut) ==
    IF fut.raised
    THEN resps
    ELSE IF fut.result # None THEN Append(resps, fut.result) ELSE resps

----------------------------------------------------------------------------
\* The question-answering service (q2/backend/model_service.py) and its
\* model registry (multimodal_qa_app/backend/config.py).

\* the providers APIConfig has a key for
KeyedProviders == {"openai", "anthropic", "google"}

\* Config.models as shipped
ShippedModels ==
    << [name |-> "gpt-4o", provider |-> "openai",
        supports_vision |-> TRUE, priority |-> 1],
       [name |-> "claude-3-sonnet-20240229", provider |-> "anthropic",
        supports_vision |-> TRUE, priority |-> 2],
       [name |-> "gpt-3.5-turbo", provider |-> "openai",
        supports_vision |-> FALSE, priority |-> 3] >>

\* a registry that uses every branch of get_available_vision_models and
\* get_fallback_models: a google vision model, an anthropic text-only model,
\* two openai text-only models and no openai vision model, declared out of
\* priority order
ExtendedModels ==
    << [name |-> "gpt-4o-mini", provider |-> "openai",
        supports_vision |-> FALSE, priority |-> 6],
       [name |-> "claude-3-sonnet-20240229", provider |-> "anthropic",
        supports_vision |-> TRUE, priority |-> 3],
       [name |-> "claude-2.1", provider |-> "anthropic",
        supports_vision |-> FALSE, priority |-> 5],
       [name |-> "gemini-pro-vision", provider |-> "google",
        supports_vision |-> TRUE, priority |-> 2],
       [name |-> "gpt-3.5-turbo", provider |-> "openai",
        supports_vision |-> FALSE, priority |-> 4] >>

ModelLists == {ShippedModels, ExtendedModels}

\* the question put to analyze_image
Questions == {"What is in the picture?"}

\* image_base64 of the request
Image == "aW1hZ2U="

\* a text-only request carries no image
NoImage == ""

RECURSIVE SortByPriority(_)
\* sorted(available_models, key=lambda x: x.priority): stable, ascending
SortByPriority(ms) ==
    IF ms = << >>
    THEN << >>
    ELSE LET rest == SortByPriority(SubSeq(ms, 1, Len(ms) - 1))
             last == ms[Len(ms)]
             before == SelectSeq(rest, LAMBDA m : m.priority <= last.priority)
             after == SelectSeq(rest, LAMBDA m : m.priority > last.priority)
         IN  before \o << last >> \o after

\* a variant that leaves out the sort: the models in declared order
get_available_vision_models_declared(ms, keys) ==
    SelectSeq(ms, LAMBDA m : /\ m.supports_vision
                             /\ m.provider \in {"openai", "anthropic", "google"}
                             /\ keys[m.provider])

\* Config.get_available_vision_models
get_available_vision_models(ms, keys) ==
    SortByPriority(
        SelectSeq(ms, LAMBDA m : /\ m.supports_vision
                                 /\ m.provider \in {"openai", "anthropic", "google"}
                                 /\ keys[m.provider]))

\* a variant that leaves out the supports_vision test
get_fallback_models_any(ms, keys) ==
    SortByPriority(
        SelectSeq(ms, LAMBDA m : /\ m.provider \in {"openai", "anthropic"}
                                 /\ keys[m.provider]))

\* Config.get_fallback_models
get_fallback_models(ms, keys) ==
    SortByPriority(
        SelectSeq(ms, LAMBDA m : /\ ~m.supports_vision
                                 /\ m.provider \in {"openai", "anthropic"}
                                 /\ keys[m.provider]))

\* ModelService.__init__: a client per provider whose key is non-empty
ModelService_init(keys) == {p \in {"openai", "anthropic"} : keys[p]}

\* the content of the text-only request of _fallback_analysis
fallback_prompt(q) ==
    "I'm unable to process the image, but here's the question: " \o q
    \o ". Please provide a helpful response acknowledging that you cannot"
    \o " see the image but offering general guidance if possible."

\* the request _analyze_with_openai / _analyze_with_anthropic sends
vision_request(model, q, image) ==
    [model |-> model.name, text |-> q, image |-> image]

\* the request _fallback_analysis sends
fallback_request(model, q) ==
    [model |-> model.name, text |-> fallback_prompt(q), image |-> NoImage]

\* what the vendor answers to a request
vendor_answer(request) ==
    IF request.image = NoImage
    THEN "general guidance on: " \o request.text
    ELSE "description of the image for: " \o request.text

\* _analyze_with_model: the exception it raises, or "ok"; sent tells whether
\* the vendor was called
_analyze_with_model(model, cl, wk) ==
    IF model.provider \in {"openai", "anthropic"}
    THEN IF model.provider \notin cl
         THEN [status |-> "ValueError", sent |-> FALSE]
         ELSE IF model.name \in wk
              THEN [status |-> "ok", sent |-> TRUE]
              ELSE [status |-> "APIError", sent |-> TRUE]
    ELSE [status |-> "ValueError", sent |-> FALSE]

\* a handler that catches the vendor's errors only
vision_except_api_errors_only(status) ==
    IF status = "APIError" THEN "continue" ELSE "propagate"

\* analyze_image, except Exception: log a warning and continue
vision_except(status) == "continue"

\* _fallback_analysis, except Exception: log a warning and continue
fallback_except(status) == "continue"

\* the dictionary _analyze_with_openai / _analyze_with_anthropic returns
vision_result(model, request, time) ==
    [answer |-> vendor_answer(request),
     model_used |-> model.name,
     processing_time |-> time,
     tokens_used |-> StubPromptTokens + StubCompletionTokens,
     provider |-> model.provider]

\* a variant that copies the vision dictionary and its flag
fallback_result_unflagged(model, request, time) ==
    [answer |-> vendor_answer(request),
     model_used |-> model.name \o " (fallback)",
     processing_time |-> time,
     tokens_used |-> StubPromptTokens + StubCompletionTokens,
     provider |-> model.provider,
     fallback_used |-> FALSE]

\* the dictionary _fallback_analysis returns for a text-only answer
fallback_result(model, request, time) ==
    [answer |-> vendor_answer(request),
     model_used |-> model.name \o " (fallback)",
     processing_time |-> time,
     tokens_used |-> StubPromptTokens + StubCompletionTokens,
     provider |-> model.provider,
     fallback_used |-> TRUE]

\* the answer of the apology when there is no fallback model
ApologyNoModels ==
    "I apologize, but I'm unable to process your request at the moment."
    \o " Please check your API configuration and try again."

\* the answer of the apology after the loop over the fallback models
ApologyAllFailed ==
    "I apologize, but I'm unable to process your image or question at the"
    \o " moment. This could be due to API limitations or configuration"
    \o " issues. Please try again later or contact support."

\* a variant that reports the apology under the name of the fallback tier
system_apology_as_fallback(text, time) ==
    [answer |-> text,
     model_used |-> "system_fallback",
     processing_time |-> time,
     tokens_used |-> 0,
     provider |-> "fallback",
     fallback_used |-> TRUE]

\* the dictionary of the two system apologies of _fallback_analysis
system_apology(text, time) ==
    [answer |-> text,
     model_used |-> "system_fallback",
     processing_time |-> time,
     tokens_used |-> 0,
     provider |-> "system",
     fallback_used |-> TRUE]

\* no dictionary yet
NoResult == [answer |-> "", model_used |-> "", processing_time |-> 0,
             tokens_used |-> 0, provider |-> "", fallback_used |-> FALSE]

\* the service before any request, with no key configured
VisionIdle ==
    /\ api = [p \in KeyedProviders |-> FALSE]
    /\ clients = ModelService_init(api)
    /\ config_models = ShippedModels
    /\ works = {}
    /\ question = ""
    /\ vpc = "idle"
    /\ direct = FALSE
    /\ vision_models = << >>
    /\ fallback_models = << >>
    /\ idx = 1
    /\ attempts = << >>
    /\ result = NoResult

----------------------------------------------------------------------------
\* The tool registries (q3/tools/math_tools.py, q3/tools/string_tools.py).

\* Python values: a number, a true-division result (a fraction in lowest
\* terms), a list of numbers, a string (its characters)
Num(n) == [num |-> n]

Frac(n, d) == [frac |-> IF d < 0 THEN Div(0 - n, 0 - d) ELSE Div(n, d)]

List(xs) == [list |-> xs]

Str(cs) == [str |-> cs]

IsNum(x) == DOMAIN x = {"num"}

IsList(x) == DOMAIN x = {"list"}

IsStr(x) == DOMAIN x = {"str"}

\* a function call that returned a value
Returns(value) == [raised |-> FALSE, exc |-> "", value |-> value]

\* a function call that raised an exception of the given class
Raises(exc) == [raised |-> TRUE, exc |-> exc, value |-> None]

RECURSIVE Pow(_, _)
\* base ** exponent for an exponent >= 0
Pow(base, exponent) ==
    IF exponent = 0 THEN 1 ELSE base * Pow(base, exponent - 1)

\* math_tools.add
add(args) ==
    IF Len(args) # 2
    THEN Raises("TypeError")
    ELSE IF IsNum(args[1]) /\ IsNum(args[2])
         THEN Returns(Num(args[1].num + args[2].num))
         ELSE IF IsList(args[1]) /\ IsList(args[2])
              THEN Returns(List(args[1].list \o args[2].list))
              ELSE IF IsStr(args[1]) /\ IsStr(args[2])
                   THEN Returns(Str(args[1].str \o args[2].str))
                   ELSE Raises("TypeError")

\* math_tools.divide
divide(args) ==
    IF Len(args) # 2
    THEN Raises("TypeError")
    ELSE IF IsNum(args[2]) /\ args[2].num = 0
         THEN Raises("ValueError")
         ELSE IF IsNum(args[1]) /\ IsNum(args[2])
              THEN Returns(Frac(args[1].num, args[2].num))
              ELSE Raises("TypeError")

\* math_tools.power
power(args) ==
    IF Len(args) # 2
    THEN Raises("TypeError")
    ELSE IF ~(IsNum(args[1]) /\ IsNum(args[2]))
         THEN Raises("TypeError")
         ELSE IF args[2].num >= 0
              THEN Returns(Num(Pow(args[1].num, args[2].num)))
              ELSE IF args[1].num = 0
                   THEN Raises("ZeroDivisionError")
                   ELSE Returns(Frac(1, Pow(args[1].num, 0 - args[2].num)))

\* math_tools.square_root; the callers pass perfect squares, any other
\* number gives the floor of its root
square_root(args) ==
    IF Len(args) # 1
    THEN Raises("TypeError")
    ELSE IF ~IsNum(args[1])
         THEN Raises("TypeError")
         ELSE IF args[1].num < 0
              THEN Raises("ValueError")
              ELSE Returns(Num(CHOOSE r \in 0..args[1].num :
                                 \/ r * r = args[1].num
                                 \/ /\ r * r < args[1].num
                                    /\ (r + 1) * (r + 1) > args[1].num))

\* math_tools.average
average(args) ==
    IF Len(args) # 1
    THEN Raises("TypeError")
    ELSE IF IsList(args[1])
         THEN IF args[1].list = << >>
              THEN Raises("ValueError")
              ELSE Returns(Frac(Sum(args[1].list), Len(args[1].list)))
         ELSE IF IsNum(args[1]) /\ args[1].num = 0
              THEN Raises("ValueError")
              ELSE IF IsStr(args[1]) /\ args[1].str = << >>
                   THEN Raises("ValueError")
                   ELSE Raises("TypeError")

\* the keys of MATH_TOOLS that are modelled
MATH_TOOLS == {"add", "divide", "power", "square_root", "average"}

\* MATH_TOOLS[tool_name](*args)
MathFunction(tool_name, args) ==
    CASE tool_name = "add" -> add(args)
      [] tool_name = "divide" -> divide(args)
      [] tool_name = "power" -> power(args)
      [] tool_name = "square_root" -> square_root(args)
      [] tool_name = "average" -> average(args)

\* "aeiouAEIOU"
Vowels == {"a", "e", "i", "o", "u", "A", "E", "I", "O", "U"}

\* the characters for which char.isalpha() holds, among those of the texts
Letters == Vowels \cup {"h", "l", "r", "t", "y", "H", "w", "d"}

\* bool(x)
Truthy(x) ==
    IF IsNum(x)
    THEN x.num # 0
    ELSE IF IsList(x) THEN x.list # << >> ELSE x.str # << >>

\* string_tools.count_vowels(text, include_y=False); over a list the sum is
\* 0 if the list is empty and the membership test raises otherwise
count_vowels(args) ==
    IF Len(args) \notin {1, 2}
    THEN Raises("TypeError")
    ELSE IF IsStr(args[1])
         THEN LET vowels == IF Len(args) = 2 /\ Truthy(args[2])
                            THEN Vowels \cup {"y", "Y"}
                            ELSE Vowels
              IN  Returns(Num(Len(SelectSeq(args[1].str,
                                            LAMBDA ch : ch \in vowels))))
         ELSE IF IsList(args[1]) /\ args[1].list = << >>
              THEN Returns(Num(0))
              ELSE Raises("TypeError")

\* string_tools.count_letters(text)
count_letters(args) ==
    IF Len(args) # 1
    THEN Raises("TypeError")
    ELSE IF IsStr(args[1])
         THEN Returns(Num(Len(SelectSeq(args[1].str,
                                        LAMBDA ch : ch \in Letters))))
         ELSE IF IsList(args[1]) /\ args[1].list = << >>
              THEN Returns(Num(0))
              ELSE IF IsList(args[1])
                   THEN Raises("AttributeError")
                   ELSE Raises("TypeError")

\* the keys of STRING_TOOLS that are modelled
STRING_TOOLS == {"count_vowels", "count_letters"}

\* STRING_TOOLS[tool_name](*args)
StringFunction(tool_name, args) ==
    CASE tool_name = "count_vowels" -> count_vowels(args)
      [] tool_name = "count_letters" -> count_letters(args)

\* a variant of call_tool that lets the tool's exception through
call_math_tool_unwrapped(tool_name, args) ==
    IF tool_name \notin {"add", "divide", "power", "square_root", "average"}
    THEN [invoked |-> FALSE, message |-> "Unknown math tool: " \o tool_name]
         @@ Raises("ValueError")
    ELSE [invoked |-> TRUE, message |-> "Error calling " \o tool_name]
         @@ MathFunction(tool_name, args)

\* math_tools.call_tool(tool_name, *args); invoked tells whether a
\* registered function was called
call_math_tool(tool_name, args) ==
    IF tool_name \notin MATH_TOOLS
    THEN [invoked |-> FALSE, message |-> "Unknown math tool: " \o tool_name]
         @@ Raises("ValueError")
    ELSE LET returned == MathFunction(tool_name, args)
         IN  [invoked |-> TRUE,
              message |-> IF returned.raised
                          THEN "Error calling " \o tool_name \o ": "
                               \o returned.exc
                          ELSE ""]
             @@ (IF returned.raised THEN Raises("ValueError") ELSE returned)

\* string_tools.call_tool(tool_name, *args)
call_string_tool(tool_name, args) ==
    IF tool_name \notin STRING_TOOLS
    THEN [invoked |-> FALSE, message |-> "Unknown string tool: " \o tool_name]
         @@ Raises("ValueError")
    ELSE LET returned == StringFunction(tool_name, args)
         IN  [invoked |-> TRUE,
              message |-> IF returned.raised
                          THEN "Error calling " \o tool_name \o ": "
                               \o returned.exc
                          ELSE ""]
             @@ (IF returned.raised THEN Raises("ValueError") ELSE returned)

\* the tool names a caller passes to a registry
ToolNames == MATH_TOOLS \cup STRING_TOOLS \cup {"modulo"}

\* the argument lists a caller passes to a registry
ToolArgs ==
    {<< >>,
     << Num(2), Num(3) >>,
     << Num(1), Num(0) >>,
     << Num(0), Num(-1) >>,
     << Num(2), Num(-2) >>,
     << Num(-4) >>,
     << Num(9) >>,
     << Num(0) >>,
     << Num(1), Num(2), Num(3) >>,
     << List(<< >>) >>,
     << List(<< 2, 4, 5 >>) >>,
     << Str(<< "h", "e", "l", "l", "o" >>) >>,
     << Str(<< "H", "e", "y", "!" >>), Num(1) >>,
     << Str(<< >>) >>}

----------------------------------------------------------------------------
\* The reasoner (q3/main.py).

\* an Optional value that is not None
Some(value) == [some |-> value]

\* the keys of available_tools
available_tools ==
    {"math." \o name : name \in MATH_TOOLS}
    \cup {"string." \o name : name \in STRING_TOOLS}

\* the texts a reply carries in its TOOL_CALL section
ToolCallTexts ==
    {"NONE", "none", "math.add(2, 3)", "math.divide(1, 0)",
     "math.power(0, -1)", "math.sqrt(16)", "add(2, 3)", "math.add(two, 3)",
     "math.add()", "math.average([2, 4, 5])", "math.average([])",
     "string.count_vowels('hello')"}

\* the texts a reply carries in its TOOL_NEEDED section
ToolNeededTexts == {"NONE", "none", "math.add"}

\* a reply in the format the prompt asks for; a section is a sequence of at
\* most one line
Formatted(tool_needed, tool_call) ==
    << "REASONING:", "think", "TOOL_NEEDED:" >> \o tool_needed
    \o << "TOOL_CALL:" >> \o tool_call \o << "FINAL_ANSWER:", "42" >>

\* the replies of the LLM, each the sequence of its lines
LLMResponses ==
    {Formatted(<< tool_needed >>, << tool_call >>) :
        tool_needed \in ToolNeededTexts, tool_call \in ToolCallTexts}
    \cup {Formatted(<< >>, << tool_call >>) : tool_call \in ToolCallTexts}
    \cup {Formatted(<< tool_needed >>, << >>) :
             tool_needed \in ToolNeededTexts}
    \cup {<< "I cannot help with that." >>,
          << "REASONING:", "think", "TOOL_NEEDED:", "math.add",
             "FINAL_ANSWER:", "42" >>,
          << "FINAL_ANSWER:", "42", "REASONING:", "think" >>,
          << "TOOL_CALL:", "NONE" >>}

\* the messages of the exceptions openai.ChatCompletion.create raises
LLMFailures == {"", "timeout"}

RECURSIVE JoinLines(_)
\* "\n".join(lines)
JoinLines(lines) ==
    IF lines = << >>
    THEN ""
    ELSE IF Len(lines) = 1
         THEN lines[1]
         ELSE lines[1] \o "\n" \o JoinLines(Tail(lines))

\* re.search(marker + r"\s*(.*?)(?=" + stop + "|$)", response, re.DOTALL),
\* group 1 stripped, "" without a match
Section(response, marker, stop) ==
    LET starts == {i \in 1..Len(response) : response[i] = marker}
    IN  IF starts = {}
        THEN ""
        ELSE LET i == CHOOSE k \in starts : \A l \in starts : k <= l
                 stops == {j \in (i + 1)..Len(response) : response[j] = stop}
                 j == IF stops = {}
                      THEN Len(response) + 1
                      ELSE CHOOSE k \in stops : \A l \in stops : k <= l
             IN  JoinLines(SubSeq(response, i + 1, j - 1))

\* parse_llm_response
parse_llm_response(response) ==
    [reasoning |-> Section(response, "REASONING:", "TOOL_NEEDED:"),
     tool_needed |-> Section(response, "TOOL_NEEDED:", "TOOL_CALL:"),
     tool_call |-> Section(response, "TOOL_CALL:", "FINAL_ANSWER:"),
     final_answer |-> Section(response, "FINAL_ANSWER:", "")]

\* text.upper(), exact as to whether the result is "NONE"
upper(text) ==
    IF text \in {"none", "None", "nOnE"} THEN "NONE" ELSE text

\* re.match(r"(\w+\.\w+)\((.*?)\)", tool_call): whether it matches, and
\* groups 1 and 2
match_tool_call(tool_call) ==
    CASE tool_call = "math.add(2, 3)" ->
            [matched |-> TRUE, tool_name |-> "math.add", args_str |-> "2, 3"]
      [] tool_call = "math.divide(1, 0)" ->
            [matched |-> TRUE, tool_name |-> "math.divide",
             args_str |-> "1, 0"]
      [] tool_call = "math.power(0, -1)" ->
            [matched |-> TRUE, tool_name |-> "math.power",
             args_str |-> "0, -1"]
      [] tool_call = "math.sqrt(16)" ->
            [matched |-> TRUE, tool_name |-> "math.sqrt", args_str |-> "16"]
      [] tool_call = "math.add(two, 3)" ->
            [matched |-> TRUE, tool_name |-> "math.add",
             args_str |-> "two, 3"]
      [] tool_call = "math.add()" ->
            [matched |-> TRUE, tool_name |-> "math.add", args_str |-> ""]
      [] tool_call = "math.average([2, 4, 5])" ->
            [matched |-> TRUE, tool_name |-> "math.average",
             args_str |-> "[2, 4, 5]"]
      [] tool_call = "math.average([])" ->
            [matched |-> TRUE, tool_name |-> "math.average",
             args_str |-> "[]"]
      [] tool_call = "string.count_vowels('hello')" ->
            [matched |-> TRUE, tool_name |-> "string.count_vowels",
             args_str |-> "'hello'"]
      [] OTHER -> [matched |-> FALSE, tool_name |-> "", args_str |-> ""]

\* tool_name.split(".", 1)
split_tool_name(tool_name) ==
    CASE tool_name = "math.add" -> << "math", "add" >>
      [] tool_name = "math.divide" -> << "math", "divide" >>
      [] tool_name = "math.power" -> << "math", "power" >>
      [] tool_name = "math.average" -> << "math", "average" >>
      [] tool_name = "math.square_root" -> << "math", "square_root" >>
      [] tool_name = "math.sqrt" -> << "math", "sqrt" >>
      [] tool_name = "string.count_vowels" -> << "string", "count_vowels" >>
      [] tool_name = "string.count_letters" -> << "string", "count_letters" >>

\* the argument parsing of execute_tool_call: float() of the comma-separated
\* parts or of the parts of the bracketed list for a math tool, the parts
\* without their quotes for a string tool
parse_arguments(category, args_str) ==
    CASE args_str = "" -> Returns(<< >>)
      [] category = "math" /\ args_str = "2, 3" ->
            Returns(<< Num(2), Num(3) >>)
      [] category = "math" /\ args_str = "1, 0" ->
            Returns(<< Num(1), Num(0) >>)
      [] category = "math" /\ args_str = "0, -1" ->
            Returns(<< Num(0), Num(-1) >>)
      [] category = "math" /\ args_str = "16" -> Returns(<< Num(16) >>)
      [] category = "math" /\ args_str = "two, 3" -> Raises("ValueError")
      [] category = "math" /\ args_str = "[2, 4, 5]" ->
            Returns(<< List(<< 2, 4, 5 >>) >>)
      [] category = "math" /\ args_str = "[]" -> Raises("ValueError")
      [] category = "string" /\ args_str = "'hello'" ->
            Returns(<< Str(<< "h", "e", "l", "l", "o" >>) >>)

\* what execute_tool_call gives its caller: the value returned or the message
\* of the exception raised, with the registry invocations that invoked a tool
Executed(value, invocations) ==
    [raised |-> FALSE, message |-> "", value |-> value, invocations |-> invocations]

Failed(message, invocations) ==
    [raised |-> TRUE, message |-> message, value |-> None, invocations |-> invocations]

\* execute_tool_call
execute_tool_call(tool_call) ==
    IF tool_call = "" \/ upper(tool_call) = "NONE"
    THEN Executed(None, << >>)
    ELSE LET match == match_tool_call(tool_call)
         IN  IF ~match.matched
             THEN Failed("Invalid tool call format: " \o tool_call, << >>)
             ELSE IF match.tool_name \notin available_tools
                  THEN Failed("Unknown tool: " \o match.tool_name, << >>)
                  ELSE LET category == split_tool_name(match.tool_name)[1]
                           name == split_tool_name(match.tool_name)[2]
                           args == parse_arguments(category, match.args_str)
                       IN  IF args.raised
                           THEN Failed("could not convert string to float",
                                       << >>)
                           ELSE LET returned ==
                                        IF category = "math"
                                        THEN call_math_tool(name, args.value)
                                        ELSE call_string_tool(name,
                                                              args.value)
                                    invocations ==
                                        IF returned.invoked
                                        THEN << [registry |-> category,
                                                 tool |-> name,
                                                 args |-> args.value] >>
                                        ELSE << >>
                                IN  IF returned.raised
                                    THEN Failed(returned.message, invocations)
                                    ELSE Executed(returned.value, invocations)

\* the ReasoningResult of the except branch of reason
failure(message) ==
    [reasoning_steps |-> "", tool_used |-> None, tool_result |-> None,
     final_answer |-> [answer |-> "", tool_result |-> None],
     success |-> FALSE, error |-> Some(message)]

\* a variant of the except branch that keeps the tool call that failed
reason_after_parse_keeps_tool(sections) ==
    IF upper(sections.tool_needed) # "NONE" /\ sections.tool_call # ""
    THEN LET executed == execute_tool_call(sections.tool_call)
         IN  IF executed.raised
             THEN [result |-> [failure(executed.message) EXCEPT
                                  !.tool_used = Some(sections.tool_call)],
                   invocations |-> executed.invocations]
             ELSE [result |->
                      [reasoning_steps |-> sections.reasoning,
                       tool_used |-> Some(sections.tool_call),
                       tool_result |-> executed.value,
                       final_answer |-> [answer |-> sections.final_answer,
                                         tool_result |-> executed.value],
                       success |-> TRUE, error |-> None],
                   invocations |-> executed.invocations]
    ELSE [result |->
             [reasoning_steps |-> sections.reasoning, tool_used |-> None,
              tool_result |-> None,
              final_answer |-> [answer |-> sections.final_answer,
                                tool_result |-> None],
              success |-> TRUE, error |-> None],
          invocations |-> << >>]

\* reason, from the parsed reply on: the ReasoningResult and the registry
\* invocations that invoked a tool.  final_answer holds the parsed answer and the
\* tool result formatted into it, None without one
reason_after_parse(sections) ==
    IF upper(sections.tool_needed) # "NONE" /\ sections.tool_call # ""
    THEN LET executed == execute_tool_call(sections.tool_call)
         IN  IF executed.raised
             THEN [result |-> failure(executed.message),
                   invocations |-> executed.invocations]
             ELSE [result |->
                      [reasoning_steps |-> sections.reasoning,
                       tool_used |-> Some(sections.tool_call),
                       tool_result |-> executed.value,
                       final_answer |-> [answer |-> sections.final_answer,
                                         tool_result |-> executed.value],
                       success |-> TRUE, error |-> None],
                   invocations |-> executed.invocations]
    ELSE [result |->
             [reasoning_steps |-> sections.reasoning, tool_used |-> None,
              tool_result |-> None,
              final_answer |-> [answer |-> sections.final_answer,
                                tool_result |-> None],
              success |-> TRUE, error |-> None],
          invocations |-> << >>]

----------------------------------------------------------------------------
\* The HTTP endpoints (W3D2/multimodal_qa_app/backend/main.py).

\* HTTPException(status_code, detail)
HTTPException(status_code, detail) ==
    [class |-> "HTTPException", status_code |-> status_code,
     detail |-> detail]

\* any exception that is not an HTTPException
OtherException(message) ==
    [class |-> "Exception", status_code |-> 0, detail |-> message]

\* what the bytes of an upload or of a download are
Images == {"valid", "corrupt", "too_large"}

\* validate_image: False for bytes that do not open or verify as an image and
\* for bytes over the size limit
validate_image(image_data) == image_data = "valid"

\* what requests.get finds at a URL: a failed request, a content type that is
\* not an image, content over the size limit, or image bytes
Downloads == {"request_failed", "not_image", "too_large", "valid", "corrupt"}

\* download_image_from_url: every exception becomes an HTTPException 400
download_image_from_url(found) ==
    IF found \in {"request_failed", "not_image", "too_large"}
    THEN [raised |-> TRUE,
          exception |-> HTTPException(400, "Failed to download image: "
                                           \o found),
          content |-> ""]
    ELSE [raised |-> FALSE, exception |-> None, content |-> found]

\* the detail of the HTTPException for an upload validate_image rejects
InvalidUpload == "Invalid image format or file too large"

\* the detail of the HTTPException for a download validate_image rejects
InvalidUrlImage == "URL does not point to a valid image or file too large"

\* how UploadFile.read ends
Reads == {"ok", "raises"}

\* handlers that report every exception of the try block as a 500
endpoint_except_reports_all(exception) ==
    HTTPException(500, "Analysis failed: " \o exception.detail)

\* the except clauses of both endpoints: an HTTPException is raised again,
\* any other exception becomes an HTTPException 500
endpoint_except(exception) ==
    IF exception.class = "HTTPException"
    THEN exception
    ELSE HTTPException(500, "Analysis failed: " \o exception.detail)

\* the response FastAPI sends for an HTTPException
error_response(exception) ==
    [status |-> exception.status_code, detail |-> exception.detail]

\* no direct call of _create_response yet
ResponseIdle ==
    /\ created = None
    /\ created_args = None

\* no request to an endpoint yet
EndpointIdle ==
    /\ epc = "idle"
    /\ endpoint = ""
    /\ passed = {}
    /\ http = [status |-> 0, detail |-> ""]

\* the reasoner and the tool registries before any call
ReasonerIdle ==
    /\ rpc = "idle"
    /\ llm_response = None
    /\ parsed = None
    /\ tool_log = << >>
    /\ call_result = None
    /\ reasoning_result = None

Init ==
    /\ VisionIdle
    /\ ResponseIdle
    /\ EndpointIdle
    /\ ReasonerIdle
    /\ config \in Configs
    /\ \E api_keys \in SUBSET ProviderNames : env = Environ(api_keys)
    /\ ctor_raises = {}
    /\ providers = _initialize_providers(env, ctor_raises).providers
    /\ pc = "idle"
    /\ model_type = "all"
    /\ provider = "all"
    /\ max_concurrent = 3
    /\ target_models = << >>
    /\ executor = FALSE
    /\ nsubmitted = 0
    /\ queue = << >>
    /\ running = {}
    /\ hung = {}
    /\ futures = << >>
    /\ outcome = << >>
    /\ completed = << >>
    /\ early = {}
    /\ waiter = << >>
    /\ yielded = {}
    /\ responses = << >>
    /\ calls = [m \in ModelNames |-> 0]
    /\ summary = << >>

\* compare_models up to the construction of the executor
compare_models(mt, pf, mc) ==
    /\ pc = "idle"
    /\ model_type' = mt
    /\ provider' = pf
    /\ max_concurrent' = mc
    /\ LET selected == _select_models_for_comparison(config, providers, mt, pf)
       IN  /\ target_models' = selected
           /\ futures' = [f \in 1..Len(selected) |-> Pending]
           /\ outcome' = [f \in 1..Len(selected) |-> NoReply]
           /\ IF selected = << >>
              THEN /\ pc' = "done"
                   /\ executor' = FALSE
              ELSE IF mc <= 0
                   THEN /\ pc' = "raised"
                        /\ executor' = FALSE
                   ELSE /\ pc' = "submit"
                        /\ executor' = TRUE
    /\ UNCHANGED <<outside, config, providers, nsubmitted, queue, running, hung,
                   completed, early, waiter, yielded, responses, calls,
                   summary>>

\* one iteration of the submit loop
Submit ==
    /\ pc = "submit"
    /\ nsubmitted < Len(target_models)
    /\ nsubmitted' = nsubmitted + 1
    /\ queue' = submit(queue, nsubmitted + 1)
    /\ UNCHANGED <<outside, config, providers, pc, model_type, provider, max_concurrent,
                   target_models, executor, running, hung, futures, outcome, completed,
                   early, waiter, yielded, responses, calls, summary>>

\* a worker thread takes the next work item and enters generate_response
StartCall ==
    /\ executor
    /\ queue # << >>
    /\ WorkerAvailable(running \cup hung, max_concurrent)
    /\ LET f == Head(queue)
       IN  /\ running' = running \cup {f}
           /\ calls' = [calls EXCEPT ![target_models[f][2]] = @ + 1]
    /\ queue' = Tail(queue)
    /\ UNCHANGED <<outside, config, providers, pc, model_type, provider, max_concurrent,
                   target_models, executor, nsubmitted, hung, futures, outcome,
                   completed, early, waiter, yielded, responses, summary>>

\* the provider call of future f ends with reply; the future is set and the
\* waiter of a running as_completed is notified
FinishCall(f, reply) ==
    /\ f \in running
    /\ running' = running \ {f}
    /\ futures' = [futures EXCEPT ![f] =
                     [state |-> "FINISHED",
                      result |-> _generate_single_response(target_models[f], reply),
                      raised |-> FALSE]]
    /\ outcome' = [outcome EXCEPT ![f] = reply]
    /\ completed' = Append(completed, f)
    /\ waiter' = IF pc = "collect" THEN Append(waiter, f) ELSE waiter
    /\ UNCHANGED <<outside, config, providers, pc, model_type, provider, max_concurrent,
                   target_models, executor, nsubmitted, queue, hung, early,
                   yielded, responses, calls, summary>>

\* the provider call of future f never returns
Hang(f) ==
    /\ f \in running
    /\ running' = running \ {f}
    /\ hung' = hung \cup {f}
    /\ UNCHANGED <<outside, config, providers, pc, model_type, provider, max_concurrent,
                   target_models, executor, nsubmitted, queue, futures, outcome,
                   completed, early, waiter, yielded, responses, calls,
                   summary>>

\* as_completed is called: the finished futures are set aside, the waiter is
\* installed on the others
BeginCollect ==
    /\ pc = "submit"
    /\ nsubmitted = Len(target_models)
    /\ pc' = "collect"
    /\ early' = {f \in Futures : futures[f].state = "FINISHED"}
    /\ UNCHANGED <<outside, config, providers, model_type, provider, max_concurrent,
                   target_models, executor, nsubmitted, queue, running, hung,
                   futures, outcome, completed, waiter, yielded, responses, calls,
                   summary>>

\* as_completed yields a future that was finished at the call, in no
\* particular order, and the loop body handles it
CollectEarly(f) ==
    /\ pc = "collect"
    /\ f \in early \ yielded
    /\ yielded' = yielded \cup {f}
    /\ responses' = CollectResult(responses, futures[f])
    /\ UNCHANGED <<outside, config, providers, pc, model_type, provider, max_concurrent,
                   target_models, executor, nsubmitted, queue, running, hung,
                   futures, outcome, completed, early, waiter, calls, summary>>

\* as_completed without "reverse to keep finishing order": the future its
\* waiter recorded last is yielded first
CollectNext_unreversed ==
    /\ pc = "collect"
    /\ early \subseteq yielded
    /\ waiter # << >>
    /\ yielded' = yielded \cup {waiter[Len(waiter)]}
    /\ waiter' = SubSeq(waiter, 1, Len(waiter) - 1)
    /\ responses' = CollectResult(responses, futures[waiter[Len(waiter)]])
    /\ UNCHANGED <<outside, config, providers, pc, model_type, provider, max_concurrent,
                   target_models, executor, nsubmitted, queue, running, hung,
                   futures, outcome, completed, early, calls, summary>>

\* as_completed yields the next future its waiter recorded, and the loop body
\* handles it
CollectNext ==
    /\ pc = "collect"
    /\ early \subseteq yielded
    /\ waiter # << >>
    /\ yielded' = yielded \cup {Head(waiter)}
    /\ waiter' = Tail(waiter)
    /\ responses' = CollectResult(responses, futures[Head(waiter)])
    /\ UNCHANGED <<outside, config, providers, pc, model_type, provider, max_concurrent,
                   target_models, executor, nsubmitted, queue, running, hung,
                   futures, outcome, completed, early, calls, summary>>

\* every future was yielded: the with block shuts the executor down and
\* _generate_responses_concurrent returns responses
Return ==
    /\ pc = "collect"
    /\ yielded = Futures
    /\ pc' = "done"
    /\ UNCHANGED <<outside, config, providers, model_type, provider, max_concurrent,
                   target_models, executor, nsubmitted, queue, running, hung,
                   futures, outcome, completed, early, waiter, yielded, responses,
                   calls, summary>>

\* the caller passes the returned list to create_comparison_summary
Summarize ==
    /\ pc = "done"
    /\ pc' = "summarized"
    /\ summary' = create_comparison_summary(responses)
    /\ UNCHANGED <<outside, config, providers, model_type, provider, max_concurrent,
                   target_models, executor, nsubmitted, queue, running, hung,
                   futures, outcome, completed, early, waiter, yielded,
                   responses, calls>>

Next ==
    \/ \E mt \in TypeFilters, pf \in ProviderFilters, mc \in 0..MaxConcurrent :
          compare_models(mt, pf, mc)
    \/ Submit
    \/ StartCall
    \/ \E f \in Futures, reply \in Replies : FinishCall(f, reply)
    \/ \E f \in Futures : Hang(f)
    \/ BeginCollect
    \/ \E f \in Futures : CollectEarly(f)
    \/ CollectNext
    \/ Return
    \/ Summarize

Spec == Init /\ [][Next]_vars

----------------------------------------------------------------------------
\* Construction of the ModelManager and candidate selection on their own.

\* the state before ModelManager(config) is constructed
InitSelect ==
    /\ VisionIdle
    /\ ResponseIdle
    /\ EndpointIdle
    /\ ReasonerIdle
    /\ config \in SelectConfigs
    /\ env \in [ProviderNames -> KeyStates]
    /\ ctor_raises \in SUBSET ProviderNames
    /\ providers = {}
    /\ pc = "new"
    /\ model_type = "all"
    /\ provider = "all"
    /\ max_concurrent = 3
    /\ target_models = << >>
    /\ executor = FALSE
    /\ nsubmitted = 0
    /\ queue = << >>
    /\ running = {}
    /\ hung = {}
    /\ futures = << >>
    /\ outcome = << >>
    /\ completed = << >>
    /\ early = {}
    /\ waiter = << >>
    /\ yielded = {}
    /\ responses = << >>
    /\ calls = [m \in ModelNames |-> 0]
    /\ summary = << >>

\* ModelManager.__init__: self.providers = {}, then _initialize_providers
ModelManager_init ==
    /\ pc = "new"
    /\ LET made == _initialize_providers(env, ctor_raises)
       IN  /\ providers' = made.providers
           /\ pc' = IF made.raised THEN "init_raised" ELSE "idle"
    /\ UNCHANGED <<outside, config, model_type, provider, max_concurrent,
                   target_models, executor, nsubmitted, queue, running, hung,
                   futures, outcome, completed, early, waiter, yielded,
                   responses, calls, summary>>

\* a call of _select_models_for_comparison(model_type, provider_filter)
select_models(mt, pf) ==
    /\ pc = "idle"
    /\ model_type' = mt
    /\ provider' = pf
    /\ target_models' = _select_models_for_comparison(config, providers, mt, pf)
    /\ pc' = "selected"
    /\ UNCHANGED <<outside, config, providers, max_concurrent, executor,
                   nsubmitted, queue, running, hung, futures, outcome,
                   completed, early, waiter, yielded, responses, calls,
                   summary>>

NextSelect ==
    \/ ModelManager_init
    \/ \E mt \in TypeFilters, pf \in ProviderFilters : select_models(mt, pf)

SpecSelect == InitSelect /\ [][NextSelect]_vars

----------------------------------------------------------------------------
\* analyze_image of the question-answering service.

\* the comparison tool, constructed without keys and left alone
ComparisonIdle ==
    /\ config = DefaultConfig
    /\ env = Environ({})
    /\ ctor_raises = {}
    /\ providers = _initialize_providers(env, ctor_raises).providers
    /\ pc = "idle"
    /\ model_type = "all"
    /\ provider = "all"
    /\ max_concurrent = 3
    /\ target_models = << >>
    /\ executor = FALSE
    /\ nsubmitted = 0
    /\ queue = << >>
    /\ running = {}
    /\ hung = {}
    /\ futures = << >>
    /\ outcome = << >>
    /\ completed = << >>
    /\ early = {}
    /\ waiter = << >>
    /\ yielded = {}
    /\ responses = << >>
    /\ calls = [m \in ModelNames |-> 0]
    /\ summary = << >>

\* the service after ModelService(): the clients were built from the keys
\* config.api held then, which are among the keys it holds at the request
InitVision ==
    /\ ComparisonIdle
    /\ ResponseIdle
    /\ EndpointIdle
    /\ ReasonerIdle
    /\ api \in [KeyedProviders -> BOOLEAN]
    /\ \E at_construction \in [KeyedProviders -> BOOLEAN] :
          /\ \A p \in KeyedProviders : at_construction[p] => api[p]
          /\ clients = ModelService_init(at_construction)
    /\ config_models \in ModelLists
    /\ works \in SUBSET {config_models[i].name : i \in 1..Len(config_models)}
    /\ question = ""
    /\ vpc = "idle"
    /\ direct = FALSE
    /\ vision_models = << >>
    /\ fallback_models = << >>
    /\ idx = 1
    /\ attempts = << >>
    /\ result = NoResult

\* analyze_image up to the test of vision_models
analyze_image(q) ==
    /\ vpc = "idle"
    /\ question' = q
    /\ vision_models' = get_available_vision_models(config_models, api)
    /\ IF vision_models' = << >>
       THEN vpc' = "fallback" /\ direct' = TRUE
       ELSE vpc' = "vision" /\ direct' = FALSE
    /\ idx' = 1
    /\ UNCHANGED <<comparison_vars, api, clients, config_models, works,
                   fallback_models, attempts, result>>

\* one iteration of the loop over vision_models: the call, and either the
\* return of its result or the except clause
TryVision ==
    /\ vpc = "vision"
    /\ idx <= Len(vision_models)
    /\ LET model == vision_models[idx]
           request == vision_request(model, question, Image)
           call == _analyze_with_model(model, clients, works)
       IN  /\ attempts' = Append(attempts,
                                 [tier |-> "vision", model |-> model.name,
                                  status |-> call.status, sent |-> call.sent,
                                  request |-> request])
           /\ IF call.status = "ok"
              THEN /\ \E time \in 0..MaxTime :
                        result' = vision_result(model, request, time)
                                  @@ [fallback_used |-> FALSE]
                   /\ vpc' = "done"
                   /\ idx' = idx
              ELSE IF vision_except(call.status) = "continue"
                   THEN /\ idx' = idx + 1
                        /\ UNCHANGED <<vpc, result>>
                   ELSE /\ vpc' = "raised"
                        /\ UNCHANGED <<idx, result>>
    /\ UNCHANGED <<comparison_vars, api, clients, config_models, works,
                   question, direct, vision_models, fallback_models>>

\* a variant that starts the vision loop again when it ends
VisionExhausted_restarts ==
    /\ vpc = "vision"
    /\ idx > Len(vision_models)
    /\ idx' = 1
    /\ UNCHANGED <<comparison_vars, api, clients, config_models, works,
                   question, vpc, direct, vision_models, fallback_models,
                   attempts, result>>

\* the loop over vision_models ends: "All vision models failed"
VisionExhausted ==
    /\ vpc = "vision"
    /\ idx > Len(vision_models)
    /\ vpc' = "fallback"
    /\ idx' = 1
    /\ UNCHANGED <<comparison_vars, api, clients, config_models, works,
                   question, direct, vision_models, fallback_models, attempts,
                   result>>

\* the return of _fallback_analysis to analyze_image, and of analyze_image
\* to its caller: the call after the vision loop sets fallback_used
return_fallback(dictionary) ==
    /\ result' = IF direct
                 THEN dictionary
                 ELSE [dictionary EXCEPT !.fallback_used = TRUE]
    /\ vpc' = "done"

\* _fallback_analysis up to the test of fallback_models
_fallback_analysis ==
    /\ vpc = "fallback"
    /\ fallback_models' = get_fallback_models(config_models, api)
    /\ IF fallback_models' = << >>
       THEN \E time \in 0..MaxTime :
               return_fallback(system_apology(ApologyNoModels, time))
       ELSE /\ vpc' = "fallback_loop"
            /\ result' = result
    /\ idx' = 1
    /\ UNCHANGED <<comparison_vars, api, clients, config_models, works,
                   question, direct, vision_models, attempts>>

\* one iteration of the loop over fallback_models
TryFallback ==
    /\ vpc = "fallback_loop"
    /\ idx <= Len(fallback_models)
    /\ LET model == fallback_models[idx]
           request == fallback_request(model, question)
           status == IF model.name \in works THEN "ok" ELSE "APIError"
       IN  IF model.provider = "openai" /\ "openai" \in clients
           THEN /\ attempts' = Append(attempts,
                                      [tier |-> "fallback",
                                       model |-> model.name,
                                       status |-> status, sent |-> TRUE,
                                       request |-> request])
                /\ IF status = "ok"
                   THEN /\ \E time \in 0..MaxTime :
                             return_fallback(
                                 fallback_result(model, request, time))
                        /\ idx' = idx
                   ELSE IF fallback_except(status) = "continue"
                        THEN /\ idx' = idx + 1
                             /\ UNCHANGED <<vpc, result>>
                        ELSE /\ vpc' = "raised"
                             /\ UNCHANGED <<idx, result>>
           ELSE /\ idx' = idx + 1
                /\ UNCHANGED <<vpc, result, attempts>>
    /\ UNCHANGED <<comparison_vars, api, clients, config_models, works,
                   question, direct, vision_models, fallback_models>>

\* the loop over fallback_models ends: "Ultimate fallback"
FallbackExhausted ==
    /\ vpc = "fallback_loop"
    /\ idx > Len(fallback_models)
    /\ \E time \in 0..MaxTime :
          return_fallback(system_apology(ApologyAllFailed, time))
    /\ UNCHANGED <<comparison_vars, api, clients, config_models, works,
                   question, direct, vision_models, fallback_models, idx,
                   attempts>>

NextVision ==
    \/ \E q \in Questions : analyze_image(q)
    \/ TryVision
    \/ VisionExhausted
    \/ _fallback_analysis
    \/ TryFallback
    \/ FallbackExhausted

SpecVision == InitVision /\ [][NextVision]_vars

----------------------------------------------------------------------------
\* BaseProvider._create_response called on its own.

\* the candidates an adapter builds a response for
ResponseCandidates ==
    {<<"openai", "gpt_chat", "instruct">>,
     <<"huggingface", "hf_tuned", "fine_tuned">>}

\* the content argument
ResponseContents == {"", "Paris", Completion, ErrorText}

\* the keyword arguments that become the metadata
ResponseMetadata == {{}, {"prompt"}, {"prompt", "error"}}

InitResponse ==
    /\ ComparisonIdle
    /\ VisionIdle
    /\ ResponseIdle
    /\ EndpointIdle
    /\ ReasonerIdle

\* self._create_response(content, model_name, model_type, start_time,
\* prompt_tokens, completion_tokens, **metadata)
create_response(cand, content, prompt_tokens, completion_tokens, metadata) ==
    /\ created = None
    /\ created' = _create_response(cand, content, 1, prompt_tokens,
                                   completion_tokens, metadata)
    /\ created_args' = [content |-> content,
                        prompt_tokens |-> prompt_tokens,
                        completion_tokens |-> completion_tokens,
                        prompt |-> IF "prompt" \in metadata
                                   THEN Query ELSE ""]
    /\ UNCHANGED <<manager_vars, vision_vars, endpoint_vars, reasoner_vars>>

NextResponse ==
    \E cand \in ResponseCandidates, content \in ResponseContents,
       prompt_tokens \in {NoCount} \cup 0..MaxCount,
       completion_tokens \in {NoCount} \cup 0..MaxCount,
       metadata \in ResponseMetadata :
        create_response(cand, content, prompt_tokens, completion_tokens,
                        metadata)

SpecResponse == InitResponse /\ [][NextResponse]_vars

----------------------------------------------------------------------------
\* The tool registries called directly, and the reasoner's reason.

InitReasoner ==
    /\ ComparisonIdle
    /\ VisionIdle
    /\ ResponseIdle
    /\ EndpointIdle
    /\ ReasonerIdle

\* math_tools.call_tool(tool_name, *args) by a caller of the registry
math_call_tool(tool_name, args) ==
    /\ rpc = "idle"
    /\ LET returned == call_math_tool(tool_name, args)
       IN  /\ call_result' = returned
           /\ tool_log' = IF returned.invoked
                          THEN Append(tool_log, [registry |-> "math",
                                                 tool |-> tool_name,
                                                 args |-> args])
                          ELSE tool_log
    /\ rpc' = "math"
    /\ UNCHANGED << llm_response, parsed, reasoning_result >>
    /\ UNCHANGED << manager_vars, vision_vars, response_vars, endpoint_vars >>

\* string_tools.call_tool(tool_name, *args) by a caller of the registry
string_call_tool(tool_name, args) ==
    /\ rpc = "idle"
    /\ LET returned == call_string_tool(tool_name, args)
       IN  /\ call_result' = returned
           /\ tool_log' = IF returned.invoked
                          THEN Append(tool_log, [registry |-> "string",
                                                 tool |-> tool_name,
                                                 args |-> args])
                          ELSE tool_log
    /\ rpc' = "string"
    /\ UNCHANGED << llm_response, parsed, reasoning_result >>
    /\ UNCHANGED << manager_vars, vision_vars, response_vars, endpoint_vars >>

\* reason: call_llm raises, and the except branch returns
llm_raises(message) ==
    /\ rpc = "idle"
    /\ reasoning_result' = failure("Error calling LLM: " \o message)
    /\ rpc' = "returned"
    /\ UNCHANGED << llm_response, parsed, tool_log, call_result >>
    /\ UNCHANGED << manager_vars, vision_vars, response_vars, endpoint_vars >>

\* reason: call_llm returns the reply, parse_llm_response parses it
llm_replies(response) ==
    /\ rpc = "idle"
    /\ llm_response' = response
    /\ parsed' = parse_llm_response(response)
    /\ rpc' = "parsed"
    /\ UNCHANGED << tool_log, call_result, reasoning_result >>
    /\ UNCHANGED << manager_vars, vision_vars, response_vars, endpoint_vars >>

\* reason: the tool call if there is one, and the return
reason_returns ==
    /\ rpc = "parsed"
    /\ LET done == reason_after_parse(parsed)
       IN  /\ reasoning_result' = done.result
           /\ tool_log' = tool_log \o done.invocations
    /\ rpc' = "returned"
    /\ UNCHANGED << llm_response, parsed, call_result >>
    /\ UNCHANGED << manager_vars, vision_vars, response_vars, endpoint_vars >>

NextReasoner ==
    \/ \E tool_name \in ToolNames, args \in ToolArgs :
          math_call_tool(tool_name, args)
    \/ \E tool_name \in ToolNames, args \in ToolArgs :
          string_call_tool(tool_name, args)
    \/ \E message \in LLMFailures : llm_raises(message)
    \/ \E response \in LLMResponses : llm_replies(response)
    \/ reason_returns

SpecReasoner == InitReasoner /\ [][NextReasoner]_vars

----------------------------------------------------------------------------
\* The endpoints /upload and /analyze-url in front of the model service.

InitEndpoint == InitVision

\* upload_and_analyze up to the call of model_service.analyze_image
upload_and_analyze(read, image_data) ==
    /\ epc = "idle"
    /\ endpoint' = "/upload"
    /\ IF read = "raises"
       THEN /\ http' = error_response(
                          endpoint_except(OtherException("read failed")))
            /\ passed' = {}
            /\ epc' = "done"
       ELSE IF ~validate_image(image_data)
            THEN /\ http' = error_response(endpoint_except(
                               HTTPException(400, InvalidUpload)))
                 /\ passed' = {"read"}
                 /\ epc' = "done"
            ELSE /\ http' = http
                 /\ passed' = {"read", "validate"}
                 /\ epc' = "awaiting"
    /\ UNCHANGED << manager_vars, vision_vars, response_vars, reasoner_vars >>

\* analyze_image_url up to the call of model_service.analyze_image
analyze_image_url(image_url, found) ==
    /\ epc = "idle"
    /\ endpoint' = "/analyze-url"
    /\ IF image_url = ""
       THEN /\ http' = error_response(
                          HTTPException(400, "Image URL is required"))
            /\ passed' = {}
            /\ epc' = "done"
       ELSE LET download == download_image_from_url(found)
            IN  IF download.raised
                THEN /\ http' = error_response(
                                   endpoint_except(download.exception))
                     /\ passed' = {"url"}
                     /\ epc' = "done"
                ELSE IF ~validate_image(download.content)
                     THEN /\ http' = error_response(endpoint_except(
                                  HTTPException(400, InvalidUrlImage)))
                          /\ passed' = {"url", "download"}
                          /\ epc' = "done"
                     ELSE /\ http' = http
                          /\ passed' = {"url", "download", "validate"}
                          /\ epc' = "awaiting"
    /\ UNCHANGED << manager_vars, vision_vars, response_vars, reasoner_vars >>

\* await model_service.analyze_image(question, image_base64): the steps of
\* the model service while the endpoint waits
model_service ==
    /\ epc = "awaiting"
    /\ NextVision

\* the endpoint after the await: the AnalysisResponse, or the except clauses
\* for an exception of the model service
return_analysis ==
    /\ epc = "awaiting"
    /\ vpc \in {"done", "raised"}
    /\ http' = IF vpc = "raised"
               THEN error_response(
                       endpoint_except(OtherException("model failed")))
               ELSE [status |-> 200, detail |-> ""]
    /\ epc' = "done"
    /\ UNCHANGED << endpoint, passed >>
    /\ UNCHANGED << manager_vars, vision_vars, response_vars, reasoner_vars >>

\* the image_url fields of the requests
ImageUrls == {"", "http://example.com/cat.png"}

NextEndpoint ==
    \/ \E read \in Reads, image_data \in Images :
          upload_and_analyze(read, image_data)
    \/ \E image_url \in ImageUrls, found \in Downloads :
          analyze_image_url(image_url, found)
    \/ model_service
    \/ return_analysis

SpecEndpoint == InitEndpoint /\ [][NextEndpoint]_vars

----------------------------------------------------------------------------
\* Vocabulary of the properties.

\* compare_models has returned its list
Returned == pc \in {"done", "summarized"}

\* the model name of the candidate of future f
NameOf(f) == target_models[f][2]

\* the futures whose provider call ended the given way
Kinds(k) == {f \in Futures : outcome[f].kind = k}

\* the positions of the returned list that hold a response of future f
ResponsesOf(f) ==
    {i \in 1..Len(responses) : responses[i].model_name = NameOf(f)}

\* the future whose call produced the response at position i
FutureOf(i) == CHOOSE f \in Futures : NameOf(f) = responses[i].model_name

\* the position of x in a sequence that holds it
Pos(seq, x) == CHOOSE i \in 1..Len(seq) : seq[i] = x

RECURSIVE SumOver(_, _)
\* the sum of vals[i] over the positions i of the set S
SumOver(S, vals) ==
    IF S = {}
    THEN 0
    ELSE LET x == CHOOSE y \in S : TRUE
         IN  vals[x] + SumOver(S \ {x}, vals)

\* every reordering of a sequence
Reorderings(s) ==
    {[i \in 1..Len(s) |-> s[q[i]]] :
        q \in {r \in [1..Len(s) -> 1..Len(s)] :
                  \A a, b \in 1..Len(s) : a # b => r[a] # r[b]}}

\* the selection filter matches no available model of an initialized provider
FilterYieldsNothing ==
    \/ provider \notin providers \cup {"all"}
    \/ providers = {}
    \/ \A p \in (IF provider = "all" THEN providers ELSE {provider} \cap providers) :
         \A t \in (IF model_type = "all" THEN TypeNames
                   ELSE {model_type} \cap TypeNames) :
            \A i \in 1..Len(config[p][t]) : ~config[p][t][i].available

----------------------------------------------------------------------------
C3_NeverBlocksForever ==
    pc \in {"submit", "collect"} => ENABLED Next

\* C4. compare_models does not raise because of a provider failure (it raises
\* only for a max_concurrent below 1, before any call), calls that raise
\* cannot block it, and the list it returns holds the response of every call
\* that succeeded, as the adapter returned it.
C4_FailuresBecomeData ==
    /\ pc = "raised" =>
          /\ max_concurrent <= 0
          /\ \A m \in ModelNames : calls[m] = 0
    /\ (pc \in {"submit", "collect"} /\ hung = {}) => ENABLED Next
    /\ Returned =>
          \A f \in Kinds("ok") :
              \E i \in 1..Len(responses) :
                  responses[i] = generate_response(target_models[f], outcome[f])

C4_Witness ==
    /\ Returned
    /\ Cardinality(Kinds("raise")) = 1
    /\ Cardinality(Kinds("ok")) = 2

\* C5. At most max_concurrent provider calls are in flight (started and not
\* returned) at any time.
C5_InFlightBounded ==
    Cardinality(running \cup hung) <= max_concurrent

C5_Witness ==
    /\ Cardinality(running \cup hung) = max_concurrent
    /\ queue # << >>
    /\ max_concurrent < Len(target_models)

\* C6. As claimed: the returned list is in completion order.
C6_CompletionOrder ==
    Returned =>
        \A i, j \in 1..Len(responses) :
            i < j => Pos(completed, FutureOf(i)) < Pos(completed, FutureOf(j))

\* C6, amended. The responses of the calls that finished after the collection
\* loop (as_completed) started are in completion order, and they follow the
\* responses of the calls that had finished before it started; the latter are
\* in no particular order.
C6_CompletionOrderOnceCollecting ==
    Returned =>
        \A i, j \in 1..Len(responses) :
            i < j =>
               /\ ~(FutureOf(i) \notin early /\ FutureOf(j) \in early)
               /\ (FutureOf(i) \notin early /\ FutureOf(j) \notin early) =>
                     Pos(completed, FutureOf(i)) < Pos(completed, FutureOf(j))

C6_Witness ==
    /\ Returned
    /\ \E i, j \in 1..Len(responses) :
          /\ i < j
          /\ FutureOf(i) \notin early
          /\ FutureOf(j) \notin early
          /\ FutureOf(i) > FutureOf(j)

\* C7. generate_response is invoked at most once per model at any time, and
\* exactly once for each selected candidate by the time compare_models
\* returns, however the invocation ended; no other model is invoked.
C7_NoRetries ==
    /\ \A m \in ModelNames : calls[m] <= 1
    /\ Returned =>
          \A m \in ModelNames :
              calls[m] = IF \E f \in Futures : NameOf(f) = m THEN 1 ELSE 0

C7_Witness ==
    /\ Returned
    /\ Len(target_models) = 3
    /\ Cardinality(Kinds("raise")) = 1
    /\ Cardinality(Kinds("error")) = 1
    /\ Cardinality(Kinds("ok")) = 1

\* C8. When the selection filter yields no candidate, compare_models returns
\* the empty list, whatever max_concurrent is: it does not raise, creates no
\* executor and invokes no provider.
C8_NoCandidatesReturnsEmpty ==
    (pc # "idle" /\ FilterYieldsNothing) =>
        /\ Returned
        /\ responses = << >>
        /\ ~executor
        /\ queue = << >>
        /\ \A m \in ModelNames : calls[m] = 0

C8_Witness ==
    /\ pc = "done"
    /\ provider = "unknown"
    /\ config = StubConfig
    /\ providers = ProviderNames
    /\ max_concurrent = 0

\* C9. The summary of k > 0 responses has total_responses = k,
\* total_tokens_used = the sum of their token totals and
\* average_response_time = the sum of their response times over k; the
\* summary of the empty list is the empty dict.
C9_SummaryTotals ==
    pc = "summarized" =>
        IF responses = << >>
        THEN summary = << >>
        ELSE /\ summary.total_responses = Len(responses)
             /\ summary.total_tokens_used =
                    SumOver(1..Len(responses), token_totals(responses))
             /\ summary.average_response_time[2] > 0
             /\ summary.average_response_time[1] * Len(responses) =
                    summary.average_response_time[2] *
                       SumOver(1..Len(responses), response_times(responses))

C9_Witness ==
    /\ pc = "summarized"
    /\ Len(responses) = 3
    /\ Sum(response_times(responses)) % 3 # 0
    /\ \E i \in 1..3 : responses[i].token_usage.total_tokens = 0
    /\ \E i \in 1..3 : responses[i].token_usage.total_tokens > 0

\* the least (greatest) value of a sequence is held by one position only
UniqueMin(values) ==
    Cardinality({i \in 1..Len(values) :
                   \A j \in 1..Len(values) : values[i] <= values[j]}) = 1

UniqueMax(values) ==
    Cardinality({i \in 1..Len(values) :
                   \A j \in 1..Len(values) : values[i] >= values[j]}) = 1

----------------------------------------------------------------------------
\* Claims on candidate selection and provider initialization (SpecSelect).

\* the providers a filter admits, among those initialized
AdmittedProviders == {p \in providers : provider = "all" \/ provider = p}

\* the model types a filter admits
AdmittedTypes == {t \in TypeNames : model_type = "all" \/ model_type = t}

\* the triples of the configured entries that are flagged available, of an
\* admitted provider and an admitted type
AvailableTriples(cfg, provs, types) ==
    UNION {{<<x[1], cfg[x[1]][x[2]][k].name, x[2]>> :
               k \in {i \in 1..Len(cfg[x[1]][x[2]]) :
                        cfg[x[1]][x[2]][i].available}} :
           x \in provs \X types}

\* C11: a call of _select_models_for_comparison yields exactly the
\* (provider, model name, model type) triples of the models that are flagged
\* available, belong to an initialized provider the provider filter admits and
\* have a type the type filter admits, each once, and it leaves the provider
\* table and the configuration as they were
C11_SelectsExactlyAvailable ==
    [][pc = "idle" /\ pc' = "selected" =>
         /\ Range(target_models') =
                AvailableTriples(config, {p \in providers :
                                            provider' = "all" \/ provider' = p},
                                 {t \in TypeNames :
                                    model_type' = "all" \/ model_type' = t})
         /\ Cardinality(Range(target_models')) = Len(target_models')
         /\ config' = config
         /\ providers' = providers]_vars

\* a selection under a type filter that kept some models and left out others
C11_Witness ==
    /\ pc = "selected"
    /\ config = FullConfig
    /\ model_type = "instruct"
    /\ provider = "all"
    /\ providers = {"openai", "anthropic"}
    /\ target_models = << <<"openai", "gpt_chat", "instruct">>,
                          <<"anthropic", "claude", "instruct">> >>

\* where the entry of a candidate is declared within its provider and type
DeclaredAt(cfg, cand) ==
    CHOOSE k \in 1..Len(cfg[cand[1]][cand[3]]) :
        cfg[cand[1]][cand[3]][k].name = cand[2]

\* the candidate a precedes the candidate b: by provider in the order of
\* provider_classes, then by type (base, instruct, fine_tuned), then by the
\* place of the declaration
Precedes(cfg, a, b) ==
    \/ Pos(ProviderOrder, a[1]) < Pos(ProviderOrder, b[1])
    \/ /\ a[1] = b[1]
       /\ Pos(TypeOrder, a[3]) < Pos(TypeOrder, b[3])
    \/ /\ a[1] = b[1]
       /\ a[3] = b[3]
       /\ DeclaredAt(cfg, a) < DeclaredAt(cfg, b)

\* C12: the candidate list is a function of the configuration, the provider
\* table and the filters, ordered by provider (openai, anthropic,
\* huggingface), then by type (base, instruct, fine_tuned), then by the
\* declared order within a type
C12_SelectionOrder ==
    pc = "selected" =>
        /\ target_models =
              _select_models_for_comparison(config, providers, model_type,
                                            provider)
        /\ \A i, j \in 1..Len(target_models) :
              i < j => Precedes(config, target_models[i], target_models[j])

\* a selection that spans providers, types of one provider, and two models
\* of one type whose declared order is not the alphabetical one
C12_Witness ==
    /\ pc = "selected"
    /\ config = FullConfig
    /\ target_models = << <<"openai", "davinci", "base">>,
                          <<"openai", "babbage", "base">>,
                          <<"openai", "gpt_chat", "instruct">>,
                          <<"anthropic", "claude", "instruct">>,
                          <<"huggingface", "hf_base", "base">>,
                          <<"huggingface", "hf_tuned", "fine_tuned">> >>

\* the providers that have a key and a constructor that does not raise
Constructible == {p \in ProviderNames : env[p] = "set" /\ p \notin ctor_raises}

\* C13: construction never raises; a provider whose key is missing (or
\* empty) or whose constructor raises is not in the provider table and
\* contributes no candidate, every other provider is in the table and its
\* available models are selected when the filters admit them
C13_FailedProvidersAreSkipped ==
    /\ pc # "init_raised"
    /\ pc # "new" => providers = Constructible
    /\ pc = "selected" =>
          /\ \A i \in 1..Len(target_models) :
                target_models[i][1] \in Constructible
          /\ \A p \in Constructible \cap AdmittedProviders :
                AvailableTriples(config, {p}, AdmittedTypes)
                    \subseteq Range(target_models)

\* openai has no key, anthropic's constructor raises, huggingface is
\* initialized and its models are selected
C13_Witness ==
    /\ pc = "selected"
    /\ config = FullConfig
    /\ env["openai"] = "missing"
    /\ env["anthropic"] = "set"
    /\ "anthropic" \in ctor_raises
    /\ env["huggingface"] = "set"
    /\ providers = {"huggingface"}
    /\ target_models = << <<"huggingface", "hf_base", "base">>,
                          <<"huggingface", "hf_tuned", "fine_tuned">> >>

----------------------------------------------------------------------------
\* Claims on analyze_image (SpecVision).

\* the registry entries that support vision and whose provider has a key
AvailableVision ==
    {m \in Range(config_models) : m.supports_vision /\ api[m.provider]}

\* the text-only registry entries whose provider (openai, anthropic) has a key
AvailableText ==
    {m \in Range(config_models) :
        /\ ~m.supports_vision
        /\ m.provider \in {"openai", "anthropic"}
        /\ api[m.provider]}

\* a call of the model succeeds: its provider is served, its client exists
\* and the vendor answers
Succeeds(m) ==
    /\ m.provider \in {"openai", "anthropic"}
    /\ m.provider \in clients
    /\ m.name \in works

\* the calls made in a tier
AttemptsOf(tier) == SelectSeq(attempts, LAMBDA a : a.tier = tier)

\* the registry entry of a name
ModelNamed(name) == CHOOSE m \in Range(config_models) : m.name = name

\* which tier produced the answer of a returned result
AnsweredBy ==
    IF attempts # << >> /\ attempts[Len(attempts)].status = "ok"
    THEN attempts[Len(attempts)].tier
    ELSE "system"

\* C14: the vision models are called one at a time in ascending priority
\* order, each at most once and only if available; a successful call ends
\* the request with that model's name and fallback_used false, after every
\* available vision model of higher priority was called and failed, and
\* before any later vision model or any fallback model is called
C14_FirstVisionSuccessWins ==
    LET vis == AttemptsOf("vision")
    IN  /\ \A i, j \in 1..Len(vis) :
              i < j => ModelNamed(vis[i].model).priority
                         < ModelNamed(vis[j].model).priority
        /\ \A i \in 1..Len(vis) : ModelNamed(vis[i].model) \in AvailableVision
        /\ \A i \in 1..Len(attempts) :
              attempts[i].tier = "vision" /\ attempts[i].status = "ok" =>
                 /\ i = Len(attempts)
                 /\ vpc = "done"
                 /\ AttemptsOf("fallback") = << >>
                 /\ result.model_used = attempts[i].model
                 /\ result.fallback_used = FALSE
        /\ vpc = "done" =>
              \A m \in AvailableVision :
                 (/\ Succeeds(m)
                  /\ \A n \in AvailableVision :
                        n.priority < m.priority => ~Succeeds(n)) =>
                    /\ result.model_used = m.name
                    /\ result.fallback_used = FALSE
                    /\ \A n \in AvailableVision :
                          n.priority < m.priority =>
                             \E i \in 1..Len(vis) :
                                vis[i].model = n.name /\ vis[i].status # "ok"
                    /\ \A n \in AvailableVision :
                          n.priority > m.priority =>
                             \A i \in 1..Len(vis) : vis[i].model # n.name

\* two vision models were available, the first failed, the second answered
C14_Witness ==
    /\ vpc = "done"
    /\ Len(attempts) = 2
    /\ attempts[1].tier = "vision" /\ attempts[1].status = "APIError"
    /\ attempts[2].tier = "vision" /\ attempts[2].status = "ok"
    /\ result.model_used = attempts[2].model
    /\ result.fallback_used = FALSE

\* C15: in a returned result, fallback_used is false exactly when a
\* vision-tier model produced the answer; it is true for an answer of a
\* text-only model and for a system apology, whether the fallback was
\* entered for lack of vision models or after all of them failed
C15_FallbackFlag ==
    vpc = "done" =>
        /\ result.fallback_used = FALSE <=> AnsweredBy = "vision"
        /\ AnsweredBy \in {"fallback", "system"} => result.fallback_used = TRUE

\* a text-only answer returned for lack of any available vision model
C15_Witness ==
    /\ vpc = "done"
    /\ direct
    /\ AnsweredBy = "fallback"
    /\ result.fallback_used = TRUE

C17_OneApologyPayload ==
    vpc = "done" /\ AnsweredBy = "system" =>
        /\ result.provider = "system"
        /\ result.model_used = "system_fallback"
        /\ result.tokens_used = 0
        /\ result.fallback_used = TRUE
        /\ result.answer = ApologyNoModels

\* C17 as the code has it: a system fallback returns provider "system",
\* model_used "system_fallback", tokens_used 0 and fallback_used true, and
\* one of two fixed apology texts: the "check your API configuration" text
\* when no text-only model is available, the "try again later" text when
\* text-only models were available and none answered
C17_ApologyPayloadPerPath ==
    vpc = "done" /\ AnsweredBy = "system" =>
        /\ result.provider = "system"
        /\ result.model_used = "system_fallback"
        /\ result.tokens_used = 0
        /\ result.fallback_used = TRUE
        /\ result.answer = IF AvailableText = {}
                           THEN ApologyNoModels
                           ELSE ApologyAllFailed
        /\ ApologyNoModels # ApologyAllFailed

\* the apology after a vision model and a text-only model were called and
\* both failed
C17_Witness ==
    /\ vpc = "done"
    /\ AnsweredBy = "system"
    /\ AttemptsOf("vision") # << >>
    /\ AttemptsOf("fallback") # << >>
    /\ result.answer = ApologyAllFailed

ResultKeys == {"answer", "model_used", "processing_time", "tokens_used",
               "provider", "fallback_used"}

\* C19: no exception of a model call leaves analyze_image: whatever the
\* models do (vendor errors, an unsupported provider, a missing client), the
\* call goes on to the next model or tier until it returns a dictionary with
\* the keys answer, model_used, processing_time, tokens_used, provider and
\* fallback_used
C19_ModelFailuresNeverEscape ==
    /\ vpc # "raised"
    /\ vpc \in {"vision", "fallback", "fallback_loop"} => ENABLED NextVision
    /\ vpc = "done" => DOMAIN result = ResultKeys

\* a request that met an unsupported provider, a missing client and a vendor
\* error, and still returned
C19_Witness ==
    /\ vpc = "done"
    /\ \E i, j, k \in 1..Len(attempts) :
          /\ attempts[i].status = "ValueError"
          /\ ModelNamed(attempts[i].model).provider = "google"
          /\ attempts[j].status = "ValueError"
          /\ ModelNamed(attempts[j].model).provider \in {"openai", "anthropic"}
          /\ attempts[k].status = "APIError"
    /\ DOMAIN result = ResultKeys

----------------------------------------------------------------------------
\* Claims on the provider adapters (Spec).

\* C20: generate_response returns a ModelResponse whether the vendor call
\* succeeded or failed; its metadata holds the key "error" exactly when the
\* vendor call failed, and then the prompt, completion and total token
\* counts are 0 and the content is the error text, not a model answer
C20_AdapterTagsVendorFailure ==
    \A f \in Futures :
        outcome[f].kind \in {"ok", "error"} =>
            /\ futures[f].state = "FINISHED"
            /\ ~futures[f].raised
            /\ futures[f].result # None
            /\ "error" \in futures[f].result.metadata
                  <=> outcome[f].kind = "error"
            /\ outcome[f].kind = "ok" =>
                  futures[f].result.content = Completion
            /\ outcome[f].kind = "error" =>
                  /\ futures[f].result.token_usage.prompt_tokens = 0
                  /\ futures[f].result.token_usage.completion_tokens = 0
                  /\ futures[f].result.token_usage.total_tokens = 0
                  /\ futures[f].result.content = ErrorText
                  /\ futures[f].result.content # Completion

\* one vendor call of the batch succeeded and another failed
C20_Witness ==
    /\ \E f \in Futures : outcome[f].kind = "ok"
    /\ \E f \in Futures :
          /\ outcome[f].kind = "error"
          /\ "error" \in futures[f].result.metadata

----------------------------------------------------------------------------
\* Claims on the model registry and on the run of one request (SpecVision).

\* a list of registry entries is in strictly ascending priority order
AscendingPriority(ms) ==
    \A i, j \in 1..Len(ms) : i < j => ms[i].priority < ms[j].priority

\* C22: get_available_vision_models yields exactly the registry entries that
\* support vision and whose provider has a non-empty key, each once, in
\* ascending priority order; get_fallback_models yields exactly the entries
\* that do not support vision and whose provider (openai or anthropic) has a
\* non-empty key, each once, in ascending priority order; the two lists
\* share no entry, and neither call changes the registry
C22_RegistryFilters ==
    [][/\ vpc = "idle" /\ vpc' # "idle" =>
             /\ Range(vision_models') = AvailableVision
             /\ Cardinality(AvailableVision) = Len(vision_models')
             /\ AscendingPriority(vision_models')
             /\ config_models' = config_models
       /\ vpc = "fallback" /\ vpc' # "fallback" =>
             /\ Range(fallback_models') = AvailableText
             /\ Cardinality(AvailableText) = Len(fallback_models')
             /\ AscendingPriority(fallback_models')
             /\ Range(fallback_models') \cap Range(vision_models) = {}
             /\ config_models' = config_models]_vars

\* both lists were computed from a registry declared out of priority order,
\* and both hold several models
C22_Witness ==
    /\ vpc = "fallback_loop"
    /\ config_models = ExtendedModels
    /\ Len(vision_models) = 2
    /\ Len(fallback_models) = 3

\* how far a request has got: the tier, then the index within the tier
Stage(position) ==
    CASE position = "idle" -> 0
      [] position = "vision" -> 1
      [] position = "fallback" -> 2
      [] position = "fallback_loop" -> 3
      [] OTHER -> 4

\* C23: a request that has not returned can always take a step, every step
\* moves it forward (to a later tier, or to a later index of the same tier),
\* it never ends raised, it makes at most N + M model calls for N available
\* vision and M available text-only models, no model is called twice, and no
\* vision model is called after a text-only model
C23_RequestTerminates ==
    /\ [](vpc \in {"idle", "vision", "fallback", "fallback_loop"}
            => ENABLED NextVision)
    /\ [][/\ \/ Stage(vpc') > Stage(vpc)
             \/ Stage(vpc') = Stage(vpc) /\ idx' > idx
          /\ vpc' # "raised"
          /\ idx' <= Len(vision_models') + Len(fallback_models') + 1
          /\ Len(attempts') <= Cardinality(AvailableVision)
                                 + Cardinality(AvailableText)
          /\ \A i, j \in 1..Len(attempts') :
                /\ i < j => attempts'[i].model # attempts'[j].model
                /\ i < j /\ attempts'[i].tier = "fallback"
                      => attempts'[j].tier = "fallback"]_vars

\* a request that called every available vision model and then a text-only
\* model before it returned
C23_Witness ==
    /\ vpc = "done"
    /\ Len(AttemptsOf("vision")) = 2
    /\ Len(AttemptsOf("fallback")) >= 1
    /\ Len(attempts) <= Cardinality(AvailableVision) + Cardinality(AvailableText)

----------------------------------------------------------------------------
\* Claims on the collected list and the provider statistics (Spec).

\* C27: whatever the order in which the workers finish, the list being
\* collected holds no more responses than there are candidates, each of its
\* responses is the result of the finished call of a submitted candidate that
\* as_completed has yielded, and no two of them belong to the same candidate
C27_NoDuplicateNoExtraneous ==
    /\ Len(responses) <= Len(target_models)
    /\ \A i \in 1..Len(responses) :
          \E f \in yielded :
              /\ f <= nsubmitted
              /\ futures[f].state = "FINISHED"
              /\ futures[f].result = responses[i]
              /\ responses[i].model_name = target_models[f][2]
              /\ responses[i].provider = target_models[f][1]
    /\ \A i, j \in 1..Len(responses) :
          i # j => << responses[i].provider, responses[i].model_name >>
                     # << responses[j].provider, responses[j].model_name >>

\* three calls that finished in an order other than that of their submission,
\* all of them collected
C27_Witness ==
    /\ Returned
    /\ Len(responses) = 3
    /\ completed # << 1, 2, 3 >>

\* the providers of the collected responses
ProvidersOf(resps) == {resps[i].provider : i \in 1..Len(resps)}

\* C28: in a non-empty summary the keys of provider_stats are the distinct
\* providers of the responses, the counts of the providers add up to
\* total_responses and their total_tokens add up to total_tokens_used
C28_ProviderStatsPartition ==
    pc = "summarized" /\ responses # << >> =>
        /\ DOMAIN summary.provider_stats = ProvidersOf(responses)
        /\ SumOver(ProvidersOf(responses),
                   [p \in ProvidersOf(responses) |->
                      summary.provider_stats[p].count])
              = summary.total_responses
        /\ SumOver(ProvidersOf(responses),
                   [p \in ProvidersOf(responses) |->
                      summary.provider_stats[p].total_tokens])
              = summary.total_tokens_used
        /\ \A p \in ProvidersOf(responses) :
              summary.provider_stats[p].count =
                 Cardinality({i \in 1..Len(responses) :
                                responses[i].provider = p})

\* a summary of three responses of two providers, with tokens on both sides
C28_Witness ==
    /\ pc = "summarized"
    /\ Len(responses) = 3
    /\ Cardinality(ProvidersOf(responses)) = 2
    /\ \A p \in ProvidersOf(responses) :
          summary.provider_stats[p].total_tokens > 0

----------------------------------------------------------------------------
\* Claims on the command line (SpecSelect).

\* the choices of --model-type
CliModelTypes == {"base", "instruct", "fine-tuned", "all"}

\* the configured model types a --model-type choice stands for
TypesOfChoice(choice) ==
    CASE choice = "all" -> TypeNames
      [] choice = "fine-tuned" -> {"fine_tuned"}
      [] OTHER -> {choice}

\* C29 as stated: for every --model-type choice, the candidate set holds
\* every available model of the chosen type of every initialized provider the
\* provider filter admits; the fine-tuned choice selects the models
\* registered with the type fine_tuned
C29_EveryCliTypeSelects ==
    pc = "selected" /\ model_type \in CliModelTypes =>
        AvailableTriples(config, AdmittedProviders, TypesOfChoice(model_type))
            \subseteq Range(target_models)

----------------------------------------------------------------------------
\* Claims on _create_response (SpecResponse).

\* C30: in a response built by _create_response the total token count is the
\* sum of the prompt and completion counts; a count that was passed is kept,
\* a count that was not passed is the length of the prompt (of the content)
\* divided by 4, rounded down
C30_TokenUsageAddsUp ==
    created # None =>
        /\ created.token_usage.total_tokens =
              created.token_usage.prompt_tokens
                 + created.token_usage.completion_tokens
        /\ created.token_usage.prompt_tokens =
              IF created_args.prompt_tokens = NoCount
              THEN Len(created_args.prompt) \div 4
              ELSE created_args.prompt_tokens
        /\ created.token_usage.completion_tokens =
              IF created_args.completion_tokens = NoCount
              THEN Len(created_args.content) \div 4
              ELSE created_args.completion_tokens

\* a response built without counts, from a prompt and a content long enough
\* for both estimates to be positive
C30_Witness ==
    /\ created # None
    /\ created_args.prompt_tokens = NoCount
    /\ created_args.completion_tokens = NoCount
    /\ created.token_usage.prompt_tokens > 0
    /\ created.token_usage.completion_tokens > 0
    /\ created.token_usage.total_tokens > created.token_usage.prompt_tokens

----------------------------------------------------------------------------
\* what call_tool owes its caller: for an unregistered name a ValueError and
\* no invocation; for a registered name one invocation, and the function's
\* value if it returned, a ValueError if it raised
Contract(registry, registered, function, tool_name, args) ==
    IF ~registered
    THEN /\ call_result'.raised
         /\ call_result'.exc = "ValueError"
         /\ tool_log' = tool_log
    ELSE /\ tool_log' = Append(tool_log, [registry |-> registry,
                                          tool |-> tool_name,
                                          args |-> args])
         /\ IF function.raised
            THEN /\ call_result'.raised
                 /\ call_result'.exc = "ValueError"
            ELSE /\ ~call_result'.raised
                 /\ call_result'.value = function.value

\* C21. call_tool of either registry returns, for a registered name, exactly
\* what the registered function returns on the arguments; for an unregistered
\* name it raises ValueError and invokes no tool; and whatever exception a
\* tool raises (division by zero, square root of a negative number, average
\* of an empty list, wrong argument count) reaches the caller as a ValueError.
C21_CallToolContract ==
    [][\A tool_name \in ToolNames, args \in ToolArgs :
          /\ math_call_tool(tool_name, args) =>
                Contract("math", tool_name \in MATH_TOOLS,
                         IF tool_name \in MATH_TOOLS
                         THEN MathFunction(tool_name, args)
                         ELSE Raises("KeyError"),
                         tool_name, args)
          /\ string_call_tool(tool_name, args) =>
                Contract("string", tool_name \in STRING_TOOLS,
                         IF tool_name \in STRING_TOOLS
                         THEN StringFunction(tool_name, args)
                         ELSE Raises("KeyError"),
                         tool_name, args)]_vars

\* power(0, -1) raised ZeroDivisionError inside the registry and the caller
\* got a ValueError
C21_Witness ==
    /\ rpc = "math"
    /\ tool_log = << [registry |-> "math", tool |-> "power",
                      args |-> << Num(0), Num(-1) >>] >>
    /\ call_result.raised
    /\ call_result.exc = "ValueError"

\* reason has returned its ReasoningResult
Reasoned == rpc = "returned"

\* reason reached execute_tool_call
ToolAttempted ==
    /\ parsed # None
    /\ upper(parsed.tool_needed) # "NONE"
    /\ parsed.tool_call # ""

\* the LLM call or the tool execution of this call of reason failed
ReasonFailed ==
    \/ parsed = None
    \/ ToolAttempted /\ execute_tool_call(parsed.tool_call).raised

\* C25. reason never raises: from the parsed reply it always returns, and the
\* ReasoningResult of a call whose LLM call or tool execution failed has
\* success False, a non-empty error, tool_used None, tool_result None and an
\* empty final_answer, while every other result has success True and error
\* None.
C25_ReasonNeverRaises ==
    /\ rpc = "parsed" => ENABLED reason_returns
    /\ Reasoned =>
          IF ReasonFailed
          THEN /\ reasoning_result.success = FALSE
               /\ reasoning_result.error # None
               /\ reasoning_result.error.some # ""
               /\ reasoning_result.tool_used = None
               /\ reasoning_result.tool_result = None
               /\ reasoning_result.final_answer
                     = [answer |-> "", tool_result |-> None]
          ELSE /\ reasoning_result.success = TRUE
               /\ reasoning_result.error = None

\* a tool was invoked and raised, and reason returned the failure
C25_Witness ==
    /\ Reasoned
    /\ tool_log # << >>
    /\ reasoning_result.success = FALSE
    /\ reasoning_result.error = Some("Error calling divide: ValueError")

\* C26. As claimed: in every ReasoningResult returned by reason, tool_used is
\* not None only if a registered tool function was invoked during the call;
\* and when the parsed reply needs no tool, or its TOOL_CALL section is empty
\* or "NONE", no tool is invoked and tool_used and tool_result are None.
C26_ToolUsedMeansInvoked ==
    Reasoned =>
       /\ reasoning_result.tool_used # None => tool_log # << >>
       /\ parsed # None
             /\ \/ upper(parsed.tool_needed) = "NONE"
                \/ parsed.tool_call \in {"", "NONE"}
          => /\ tool_log = << >>
             /\ reasoning_result.tool_used = None
             /\ reasoning_result.tool_result = None

----------------------------------------------------------------------------
\* the response of an endpoint that ended without calling the model service
RejectedWith(status, detail) ==
    /\ epc' = "done"
    /\ http' = [status |-> status, detail |-> detail]
    /\ vpc' = "idle"
    /\ attempts' = << >>

\* C24. Both endpoints call model_service.analyze_image only after
\* validate_image has accepted the bytes, and /analyze-url only after the URL
\* was present and its download succeeded.  A rejected image, a missing URL
\* and a failed download give HTTP 400 and no model call, the HTTPException
\* raised in the try block arrives unchanged, and any other exception gives
\* HTTP 500.
C24_ValidateBeforeModel ==
    [][/\ vpc = "idle" /\ vpc' # "idle" =>
             /\ epc = "awaiting"
             /\ "validate" \in passed
             /\ endpoint = "/analyze-url" => {"url", "download"} \subseteq passed
       /\ \A read \in Reads, image_data \in Images :
             upload_and_analyze(read, image_data) =>
                IF read = "raises"
                THEN RejectedWith(500, "Analysis failed: read failed")
                ELSE IF image_data # "valid"
                     THEN RejectedWith(400,
                             "Invalid image format or file too large")
                     ELSE epc' = "awaiting" /\ vpc' = "idle"
       /\ \A image_url \in ImageUrls, found \in Downloads :
             analyze_image_url(image_url, found) =>
                IF image_url = ""
                THEN RejectedWith(400, "Image URL is required")
                ELSE IF found \in {"request_failed", "not_image", "too_large"}
                     THEN RejectedWith(400, "Failed to download image: "
                                            \o found)
                     ELSE IF found # "valid"
                          THEN RejectedWith(400,
                "URL does not point to a valid image or file too large")
                          ELSE epc' = "awaiting" /\ vpc' = "idle"
       /\ return_analysis =>
             http'.status = IF vpc = "raised" THEN 500 ELSE 200]_vars

\* /analyze-url answered a request whose image the model service analysed
C24_Witness ==
    /\ epc = "done"
    /\ endpoint = "/analyze-url"
    /\ passed = {"url", "download", "validate"}
    /\ http.status = 200
    /\ vpc = "done"
    /\ attempts # << >>

====
